---- MODULE Spec2Model ----
(***************************************************************************)
(* Model of the Mapier Hub place service.                                  *)
(*                                                                         *)
(* Spec       PLIService (services/pli.service.ts) and the /places routes  *)
(*            that call it, running against the tables `places` and        *)
(*            `custom_places`.  Every await of a handler is a separate     *)
(*            step, so concurrent requests interleave exactly at the       *)
(*            database calls.                                              *)
(* SpecLink   the identifier-linkage calls (syncPLI, cachePLI) alone, with *)
(*            a log of the calls made, on a table with three rows.         *)
(* SpecSearch POST /search: cache check, fan-out to the enabled providers, *)
(*            join, merge, response.                                       *)
(* SpecMerge  the merge step as a function of the provider results.        *)
(***************************************************************************)
EXTENDS Integers, Sequences, FiniteSets, TLC

NULL == "null"

(***************************************************************************)
(* Bounds of the model.                                                    *)
(***************************************************************************)
\* number of rows custom_places may grow to
MaxCustom == 1

\* the concurrently running /places/resolve requests
Procs == {"r1", "r2"}

(***************************************************************************)
(* Value domains the requests are drawn from.  A text that the code builds *)
(* or stores whole (a formatted address) is the sequence of its pieces,    *)
(* <<>> standing for null and the empty text alike.                        *)
(***************************************************************************)
\* "g3" and "a3" are held by the row gers_2 from the start
GoogleIds == {"g1", "g2", "g3"}
AppleIds == {"a1"}
Platforms == {"ios", "android"}

AddrFormatted ==
  [street |-> "1 Main St", city |-> NULL, state |-> NULL, postcode |-> NULL,
   country |-> "CA", formatted |-> <<"Suite 2", ", ", "1 Main St">>]
\* no address in the body: every address?.x is undefined
AddrNone ==
  [street |-> NULL, city |-> NULL, state |-> NULL, postcode |-> NULL,
   country |-> NULL, formatted |-> <<>>]

\* what a client observed: a place near gers_1 with a similar name, and a
\* place that no bulk-ingested row matches
Observations ==
  {[lat |-> 0, lon |-> 0, name |-> "Starbucks Coffee", category |-> "cafe",
    address |-> AddrNone],
   [lat |-> 0, lon |-> 0, name |-> "Blue Bottle", category |-> "cafe",
    address |-> AddrFormatted]}

\* the platform identifiers a body carries, with the platform that sent it
Carried ==
  {<<"g2", NULL, "android">>, <<NULL, "a1", "ios">>, <<"g2", "a1", "ios">>}

\* ResolveRequest after resolveSchema and the source_platform defaulting
ResolveRequests ==
  {[google_place_id |-> c[1], apple_place_id |-> c[2],
    lat |-> o.lat, lon |-> o.lon, name |-> o.name, category |-> o.category,
    address |-> o.address, source_platform |-> c[3]] :
     c \in Carried, o \in Observations}

\* the registered providers
Providers == {"local", "google", "refuge"}

\* redis.get found no entry under the key
NoEntry == [hit |-> FALSE]

\* the merge step has not run
NotMerged == <<[name |-> NULL]>>

Tables == {"places", "custom_places"}
\* an id is <<prefix, rest>>; crypto.randomUUID() is the next unused number
PlaceIds == {<<"gers_", 1>>, <<"gers_", 2>>, <<"gers_", 3>>}
CustomIds == {<<"custom_", n>> : n \in 1..MaxCustom}

VARIABLES
  db,        \* db[table] : function from the ids of the rows to the rows
  pc,        \* pc[p] : position of resolve request p
  request,   \* request[p] : the ResolveRequest of p
  match,     \* match[p] : matches?.[0] of the conflate_place RPC (or NULL)
  placeData, \* placeData[p] : the address row fetched after a match
  response,  \* response[p] : the HTTP response of p once it is done
  log,       \* SpecLink: the linkage calls made so far, in order
  enabled,        \* SpecSearch: the providers enabled for the running search
  task,           \* SpecSearch: task[pr] : state of the call to provider pr
  searchPc,       \* SpecSearch: position of the POST /search handler
  searchResponse, \* SpecSearch: its HTTP response
  searchCache,    \* SpecSearch: the entry of the query's key in the cache
  arrival,        \* SpecSearch: the providers in the order their tasks settled
  redisUp,        \* SpecSearch: whether the commands sent to redis succeed
  mergeInput,     \* SpecMerge: the provider results, in processing order
  mergeOutput,    \* SpecMerge: the merged result set
  cacheParams,    \* SpecCacheKey: two search parameter objects
  cacheKeys,      \* SpecCacheKey: the cache keys generated for them
  reply,          \* SpecPlaces: the last /places request and its response
  stream,         \* SpecStream: the running GET /places/details-stream
  auto            \* SpecAutocomplete: the cache and the last response

pliVars == <<db, pc, request, match, placeData, response>>
searchVars ==
  <<enabled, task, searchPc, searchResponse, searchCache, arrival, redisUp>>
mergeVars == <<mergeInput, mergeOutput>>
keyVars == <<cacheParams, cacheKeys>>
routeVars == <<stream, auto>>
restVars == <<mergeVars, keyVars, reply, routeVars>>
vars == <<pliVars, log, searchVars, restVars>>

(***************************************************************************)
(* The persistence boundary (PostgreSQL behind supabase-js).               *)
(***************************************************************************)
Columns == {"google_place_id", "apple_place_id"}

\* ALTER TABLE places ADD CONSTRAINT places_google_place_id_unique
places_google_place_id_unique == {<<"places", "google_place_id">>}

\* the uniqueness constraints the design puts on the other identifier columns
pli_unique_constraints ==
  {<<"places", "apple_place_id">>, <<"custom_places", "google_place_id">>,
   <<"custom_places", "apple_place_id">>}

UniqueConstraints == places_google_place_id_unique \cup pli_unique_constraints

\* would storing value v in column col of row id of table t be rejected (23505)?
UniqueViolation(d, t, id, col, v) ==
  /\ <<t, col>> \in UniqueConstraints
  /\ v # NULL
  /\ \E other \in DOMAIN d[t] : other # id /\ d[t][other][col] = v

AllRows(d) == {<<t, id>> \in Tables \X (PlaceIds \cup CustomIds) : id \in DOMAIN d[t]}

\* UpdateIfNull without the .is(column, null) filter
UpdateIfNull_Overwrite(d, t, id, col, v) ==
  IF id \in DOMAIN d[t]
  THEN IF UniqueViolation(d, t, id, col, v)
       THEN <<d, TRUE>>
       ELSE <<[d EXCEPT ![t][id][col] = v], FALSE>>
  ELSE <<d, FALSE>>

\* UPDATE t SET col = v WHERE id = ... AND col IS NULL; <<new db, error>>
UpdateIfNull(d, t, id, col, v) ==
  IF id \in DOMAIN d[t] /\ d[t][id][col] = NULL
  THEN IF UniqueViolation(d, t, id, col, v)
       THEN <<d, TRUE>>
       ELSE <<[d EXCEPT ![t][id][col] = v], FALSE>>
  ELSE <<d, FALSE>>

\* INSERT INTO custom_places ...; <<new db, error>>
InsertCustom(d, id, row) ==
  IF \E col \in Columns : UniqueViolation(d, "custom_places", id, col, row[col])
  THEN <<d, TRUE>>
  ELSE <<[d EXCEPT !["custom_places"] = (id :> row) @@ d["custom_places"]], FALSE>>

(***************************************************************************)
(* The geodatabase RPC conflate_place: exact identifier first, then        *)
(* spatial + name similarity, else no candidate.                           *)
(***************************************************************************)
p_radius_meters == 50
p_name_threshold == 70

Abs(x) == IF x < 0 THEN -x ELSE x

\* one grid step of lat/lon is 40 m
Distance(lat1, lon1, lat2, lon2) == 40 * (Abs(lat1 - lat2) + Abs(lon1 - lon2))

\* similarity of two names in percent
NameSimilarity(a, b) ==
  IF a = b THEN 100
  ELSE IF {a, b} = {"Starbucks", "Starbucks Coffee"} THEN 80
  ELSE 10

\* the match confidences the RPC may report for a spatial candidate
SpatialConfidences == {80, 100}

ExactCandidates(d, rq) ==
  {e \in AllRows(d) :
     \/ rq.google_place_id \notin {NULL, ""}
        /\ d[e[1]][e[2]].google_place_id = rq.google_place_id
     \/ rq.apple_place_id \notin {NULL, ""}
        /\ d[e[1]][e[2]].apple_place_id = rq.apple_place_id}

SpatialCandidates(d, rq) ==
  {e \in AllRows(d) :
     /\ Distance(rq.lat, rq.lon, d[e[1]][e[2]].lat, d[e[1]][e[2]].lon)
          <= p_radius_meters
     /\ NameSimilarity(rq.name, d[e[1]][e[2]].name) > p_name_threshold}

Candidate(d, rq, e, conf) ==
  [matched_source |-> e[1], matched_id |-> e[2],
   matched_name |-> d[e[1]][e[2]].name,
   match_confidence |-> conf,
   distance_meters |->
     Distance(rq.lat, rq.lon, d[e[1]][e[2]].lat, d[e[1]][e[2]].lon),
   google_place_id |-> d[e[1]][e[2]].google_place_id,
   apple_place_id |-> d[e[1]][e[2]].apple_place_id]

\* matches is empty: match?.matched_source is undefined
NoMatch == [matched_source |-> NULL]

\* the values matches?.[0] can take
conflate_place(d, rq) ==
  IF ExactCandidates(d, rq) # {}
  THEN {Candidate(d, rq, e, 100) : e \in ExactCandidates(d, rq)}
  ELSE IF SpatialCandidates(d, rq) # {}
  THEN {Candidate(d, rq, e, c) :
          e \in SpatialCandidates(d, rq), c \in SpatialConfidences}
  ELSE {NoMatch}

(***************************************************************************)
(* PLIService                                                              *)
(***************************************************************************)
\* a string that fails `c && c.trim()`
IsBlank(c) == c \in {NULL, "", " "}

\* x || y
Or(x, y) == IF x \in {NULL, ""} THEN y ELSE x

\* x || undefined
OrUndefined(x) == IF x \in {NULL, ""} THEN NULL ELSE x

\* components.join(', '): the text is the sequence of its pieces
RECURSIVE Join(_)
Join(components) ==
  IF Len(components) = 0 THEN <<>>
  ELSE IF Len(components) = 1 THEN <<components[1]>>
  ELSE <<components[1], ", ">> \o Join(Tail(components))

RECURSIVE Filter(_)
Filter(components) ==
  IF Len(components) = 0 THEN <<>>
  ELSE IF IsBlank(Head(components)) THEN Filter(Tail(components))
  ELSE <<Head(components)>> \o Filter(Tail(components))

formatAddress(street, city, state, postcode, country, formatted) ==
  LET components == Filter(<<street, city, state, postcode>>)
  IN [street |-> OrUndefined(street), city |-> OrUndefined(city),
      state |-> OrUndefined(state), postcode |-> OrUndefined(postcode),
      country |-> OrUndefined(country),
      formatted |->
        IF Len(formatted) > 0 THEN formatted
        ELSE IF Len(components) > 0 THEN Join(components) ELSE <<>>]

\* cachePLI_updates taking the identifier of the other platform
cachePLI_updates_OtherPlatform(rq) ==
  {u \in {<<"google_place_id", rq.google_place_id>>,
          <<"apple_place_id", rq.apple_place_id>>} :
     /\ u[2] \notin {NULL, ""}
     /\ \/ u[1] = "google_place_id" /\ rq.source_platform = "ios"
        \/ u[1] = "apple_place_id" /\ rq.source_platform = "android"}

\* the `updates` object of cachePLI: the set of <<column, value>> it holds
cachePLI_updates(rq) ==
  {u \in {<<"google_place_id", rq.google_place_id>>,
          <<"apple_place_id", rq.apple_place_id>>} :
     /\ u[2] \notin {NULL, ""}
     /\ \/ u[1] = "google_place_id" /\ rq.source_platform = "android"
        \/ u[1] = "apple_place_id" /\ rq.source_platform = "ios"}

\* the column of the `.is(column, null)` filter
cachePLI_column(rq) ==
  IF rq.source_platform = "ios" THEN "apple_place_id" ELSE "google_place_id"

\* cachePLI_write without the .is(column, null) filter
cachePLI_write_NoNullFilter(d, t, placeId, rq) ==
  IF placeId \in DOMAIN d[t]
     /\ ~ \E u \in cachePLI_updates(rq) : UniqueViolation(d, t, placeId, u[1], u[2])
  THEN [col \in DOMAIN d[t][placeId] |->
          IF \E u \in cachePLI_updates(rq) : u[1] = col
          THEN (CHOOSE u \in cachePLI_updates(rq) : u[1] = col)[2]
          ELSE d[t][placeId][col]]
  ELSE d[t][placeId]

\* the row of table t with id placeId after update(updates).eq().is(column, null)
cachePLI_write(d, t, placeId, rq) ==
  IF placeId \in DOMAIN d[t] /\ d[t][placeId][cachePLI_column(rq)] = NULL
     /\ ~ \E u \in cachePLI_updates(rq) : UniqueViolation(d, t, placeId, u[1], u[2])
  THEN [col \in DOMAIN d[t][placeId] |->
          IF \E u \in cachePLI_updates(rq) : u[1] = col
          THEN (CHOOSE u \in cachePLI_updates(rq) : u[1] = col)[2]
          ELSE d[t][placeId][col]]
  ELSE d[t][placeId]

\* the database after cachePLI(table, placeId, request)
cachePLI(d, t, placeId, rq) ==
  IF cachePLI_updates(rq) = {} \/ placeId \notin DOMAIN d[t] THEN d
  ELSE [d EXCEPT ![t][placeId] = cachePLI_write(d, t, placeId, rq)]

startsWithCustom(placeId) == placeId[1] = "custom_"

syncPLI_table(placeId) == IF startsWithCustom(placeId) THEN "custom_places" ELSE "places"

syncPLI_column(platform) ==
  IF platform = "ios" THEN "apple_place_id" ELSE "google_place_id"

\* syncPLI_result without the .is(column, null) filter
syncPLI_result_Overwrite(d, placeId, platform, pli) ==
  LET upd == UpdateIfNull_Overwrite(d, syncPLI_table(placeId), placeId,
                                    syncPLI_column(platform), pli)
  IN <<upd[1], [success |-> ~ upd[2]]>>

\* <<database after syncPLI(placeId, platform, pli), its return value>>
syncPLI_result(d, placeId, platform, pli) ==
  LET upd == UpdateIfNull(d, syncPLI_table(placeId), placeId,
                          syncPLI_column(platform), pli)
  IN <<upd[1], [success |-> ~ upd[2]]>>

\* createCustomPlace_row without the platform identifiers
createCustomPlace_row_NoIdentifiers(rq) ==
  [name |-> rq.name, lat |-> rq.lat, lon |-> rq.lon,
   primary_category |-> rq.category,
   google_place_id |-> NULL,
   apple_place_id |-> NULL,
   formatted_address |-> rq.address.formatted,
   street |-> rq.address.street,
   city |-> rq.address.city,
   state |-> rq.address.state,
   postcode |-> rq.address.postcode,
   country |-> Or(rq.address.country, "US"),
   source_platform |-> rq.source_platform]

\* the row createCustomPlace inserts
createCustomPlace_row(rq) ==
  [name |-> rq.name, lat |-> rq.lat, lon |-> rq.lon,
   primary_category |-> rq.category,
   google_place_id |-> rq.google_place_id,
   apple_place_id |-> rq.apple_place_id,
   formatted_address |-> rq.address.formatted,
   street |-> rq.address.street,
   city |-> rq.address.city,
   state |-> rq.address.state,
   postcode |-> rq.address.postcode,
   country |-> Or(rq.address.country, "US"),
   source_platform |-> rq.source_platform]

\* .single() found no row
NoRow == [found |-> FALSE]

\* address: undefined
AddrUndefined == [undefined |-> TRUE]

\* resolve_matched labelling every match spatial_match
resolve_matched_SpatialLabel(rq, m, pd) ==
  [success |-> TRUE,
   place |->
     [id |-> m.matched_id, source |-> m.matched_source,
      name |-> m.matched_name, lat |-> rq.lat, lon |-> rq.lon,
      category |-> rq.category,
      google_place_id |-> Or(m.google_place_id, rq.google_place_id),
      apple_place_id |-> Or(m.apple_place_id, rq.apple_place_id),
      address |->
        IF pd = NoRow THEN AddrUndefined
        ELSE formatAddress(pd.street, pd.city, pd.state, pd.postcode, pd.country,
                           IF m.matched_source = "custom_places"
                           THEN pd.formatted_address ELSE <<>>)],
   resolution |->
     [method |-> "spatial_match",
      confidence |-> m.match_confidence,
      distance_meters |-> m.distance_meters]]

\* the value resolve returns on a match (both branches build the same object)
resolve_matched(rq, m, pd) ==
  [success |-> TRUE,
   place |->
     [id |-> m.matched_id, source |-> m.matched_source,
      name |-> m.matched_name, lat |-> rq.lat, lon |-> rq.lon,
      category |-> rq.category,
      google_place_id |-> Or(m.google_place_id, rq.google_place_id),
      apple_place_id |-> Or(m.apple_place_id, rq.apple_place_id),
      address |->
        IF pd = NoRow THEN AddrUndefined
        ELSE formatAddress(pd.street, pd.city, pd.state, pd.postcode, pd.country,
                           IF m.matched_source = "custom_places"
                           THEN pd.formatted_address ELSE <<>>)],
   resolution |->
     [method |-> IF m.match_confidence = 100 THEN "exact_pli" ELSE "spatial_match",
      confidence |-> m.match_confidence,
      distance_meters |-> m.distance_meters]]

\* the value resolve returns after createCustomPlace
resolve_created(rq, id) ==
  [success |-> TRUE,
   place |->
     [id |-> id, source |-> "custom_places",
      name |-> rq.name, lat |-> rq.lat, lon |-> rq.lon,
      category |-> rq.category,
      google_place_id |-> rq.google_place_id,
      apple_place_id |-> rq.apple_place_id,
      address |-> rq.address],
   resolution |->
     [method |-> "created_custom", confidence |-> 50]]

\* c.json(result) of POST /places/resolve
resolve_ok(result) == [status |-> 200, body |-> result]

\* the 400 of POST /places/resolve when safeParse fails
resolve_invalid ==
  [status |-> 400,
   body |-> [success |-> FALSE, error |-> [code |-> "VALIDATION_ERROR"]]]

\* a variant of the catch block that answers 200 without a code
resolve_failed_Status200 ==
  [status |-> 200,
   body |-> [success |-> FALSE, error |-> [code |-> NULL]]]

\* the catch block of POST /places/resolve
resolve_failed ==
  [status |-> 500,
   body |-> [success |-> FALSE, error |-> [code |-> "RESOLUTION_FAILED"]]]

\* no request in the slot, nothing sent yet
NoRequest == [name |-> NULL]
NoResponse == [status |-> 0]

\* crypto.randomUUID(): an id no row has
\* a variant that uses the bare UUID as the id
NextCustomId_BareUUID(d) == <<"", Cardinality(DOMAIN d["custom_places"]) + 1>>

NextCustomId(d) == <<"custom_", Cardinality(DOMAIN d["custom_places"]) + 1>>

(***************************************************************************)
(* Initial state: the bulk-ingested places rows, custom_places empty.      *)
(***************************************************************************)
InitialPlaces(g) ==
  (<<"gers_", 1>> :>
     [name |-> "Starbucks", lat |-> 1, lon |-> 0, primary_category |-> "cafe",
      google_place_id |-> g, apple_place_id |-> NULL,
      street |-> "5 Broadway", city |-> "NYC", state |-> "NY",
      postcode |-> NULL, country |-> "US"])
  @@
  (<<"gers_", 2>> :>
     [name |-> "Blue Bottle", lat |-> 3, lon |-> 0, primary_category |-> NULL,
      google_place_id |-> "g3", apple_place_id |-> "a3",
      street |-> NULL, city |-> NULL, state |-> NULL,
      postcode |-> NULL, country |-> NULL])

\* no resolve request is running
NoResolve ==
  /\ pc = [p \in Procs |-> "idle"]
  /\ request = [p \in Procs |-> NoRequest]
  /\ match = [p \in Procs |-> NoMatch]
  /\ placeData = [p \in Procs |-> NoRow]
  /\ response = [p \in Procs |-> NoResponse]

\* no search request is running, nothing cached, nothing to merge
NoSearch ==
  /\ enabled = {}
  /\ task = [pr \in Providers |-> "idle"]
  /\ searchPc = "idle"
  /\ searchResponse = NoResponse
  /\ searchCache = NoEntry
  /\ arrival = <<>>
  /\ redisUp = TRUE

NoMerge ==
  /\ mergeInput = <<>>
  /\ mergeOutput = NotMerged

\* no cache key has been asked for
NoCacheKey ==
  /\ cacheParams = <<>>
  /\ cacheKeys = <<>>

\* no read-side /places request has been answered
NoReply == reply = NoResponse

\* no details stream is open and the autocomplete cache is empty
NoQuery == [google_place_id |-> NULL]
NoPoi == [id |-> NULL]
NoStream ==
  [pc |-> "idle", status |-> 0, query |-> NoQuery, poi |-> NoPoi,
   events |-> <<>>, links |-> {}]
AutocompleteInputs == {"", "cafe", "bar"}
AutocompleteLocations == {NULL, "41.79,-87.59"}
AutocompleteKeys == (AutocompleteInputs \cup {NULL}) \X AutocompleteLocations
NoAuto ==
  [cache |-> [k \in AutocompleteKeys |-> NoEntry], reply |-> NoResponse,
   fetches |-> 0]
NoRoutes ==
  /\ stream = NoStream
  /\ auto = NoAuto

Init ==
  /\ \E g \in {NULL, "g1"} :
       db = [places |-> InitialPlaces(g), custom_places |-> <<>>]
  /\ NoResolve
  /\ log = <<>>
  /\ NoSearch
  /\ NoMerge
  /\ NoCacheKey
  /\ NoReply
  /\ NoRoutes

(***************************************************************************)
(* POST /places/resolve -> PLIService.resolve, one action per await.       *)
(***************************************************************************)
\* the handler parses the body (400 when resolveSchema rejects it) and
\* resolve awaits supabase.rpc('conflate_place')
resolve_conflate(p) ==
  /\ pc[p] = "idle"
  /\ \/ /\ pc' = [pc EXCEPT ![p] = "done"]
        /\ response' = [response EXCEPT ![p] = resolve_invalid]
        /\ UNCHANGED <<request, match>>
     \/ \E rq \in ResolveRequests, error \in BOOLEAN :
          /\ request' = [request EXCEPT ![p] = rq]
          /\ IF error
             THEN /\ pc' = [pc EXCEPT ![p] = "done"]
                  /\ response' = [response EXCEPT ![p] = resolve_failed]
                  /\ UNCHANGED match
             ELSE \E m \in conflate_place(db, rq) :
                    /\ m = NoMatch =>
                         Cardinality(DOMAIN db["custom_places"]) < MaxCustom
                    /\ match' = [match EXCEPT ![p] = m]
                    /\ pc' = [pc EXCEPT ![p] =
                                IF m.matched_source \in Tables
                                THEN "cachePLI" ELSE "create"]
                    /\ UNCHANGED response
  /\ UNCHANGED <<db, placeData, log, searchVars, restVars>>

\* the match branch: the select of the address columns (which no statement
\* of the service ever updates), await this.cachePLI(...), and the return
resolve_cachePLI(p) ==
  /\ pc[p] = "cachePLI"
  /\ LET m == match[p] IN
       placeData' = [placeData EXCEPT ![p] =
          IF m.matched_id \in DOMAIN db[m.matched_source]
          THEN db[m.matched_source][m.matched_id] ELSE NoRow]
  /\ db' = cachePLI(db, match[p].matched_source, match[p].matched_id, request[p])
  /\ response' = [response EXCEPT ![p] =
                    resolve_ok(resolve_matched(request[p], match[p], placeData'[p]))]
  /\ pc' = [pc EXCEPT ![p] = "done"]
  /\ UNCHANGED <<request, match, log, searchVars, restVars>>

\* await this.createCustomPlace(request) and the return of the create branch
resolve_createCustomPlace(p) ==
  /\ pc[p] = "create"
  /\ LET id == NextCustomId(db)
         ins == InsertCustom(db, id, createCustomPlace_row(request[p]))
     IN /\ ins[2] \/ Cardinality(DOMAIN db["custom_places"]) < MaxCustom
        /\ db' = ins[1]
        /\ response' = [response EXCEPT ![p] =
              IF ins[2] THEN resolve_failed
              ELSE resolve_ok(resolve_created(request[p], id))]
  /\ pc' = [pc EXCEPT ![p] = "done"]
  /\ UNCHANGED <<request, match, placeData, log, searchVars, restVars>>

\* the response has been sent; the slot serves the next request
resolve_return(p) ==
  /\ pc[p] = "done"
  /\ pc' = [pc EXCEPT ![p] = "idle"]
  /\ request' = [request EXCEPT ![p] = NoRequest]
  /\ match' = [match EXCEPT ![p] = NoMatch]
  /\ placeData' = [placeData EXCEPT ![p] = NoRow]
  /\ response' = [response EXCEPT ![p] = NoResponse]
  /\ UNCHANGED <<db, log, searchVars, restVars>>

(***************************************************************************)
(* POST /places/sync-pli -> PLIService.syncPLI: one conditional update.    *)
(***************************************************************************)
syncPLI(placeId, platform, pli) ==
  /\ db' = syncPLI_result(db, placeId, platform, pli)[1]
  /\ UNCHANGED <<pc, request, match, placeData, response, log, searchVars,
                 restVars>>

\* the rows clients sync: gers_1 and the custom rows (every identifier
\* of the other places rows is set from the start)
SyncTargets == {<<"gers_", 1>>} \cup CustomIds

sync_pli ==
  \E placeId \in SyncTargets, platform \in Platforms :
    \E pli \in (IF platform = "ios" THEN AppleIds ELSE GoogleIds) :
      syncPLI(placeId, platform, pli)

Next ==
  \/ \E p \in Procs : resolve_conflate(p)
  \/ \E p \in Procs : resolve_cachePLI(p)
  \/ \E p \in Procs : resolve_createCustomPlace(p)
  \/ \E p \in Procs : resolve_return(p)
  \/ sync_pli

Spec == Init /\ [][Next]_vars

TypeOK ==
  /\ DOMAIN db = Tables
  /\ pc \in [Procs -> {"idle", "cachePLI", "create", "done"}]

(***************************************************************************)
(* SpecLink: the two linkage paths, cachePLI (from resolve) and syncPLI,   *)
(* each one conditional update, called in any order on a places table of   *)
(* three rows.  log records every call with the value its column held when *)
(* the update ran.                                                         *)
(***************************************************************************)
\* number of linkage calls made
MaxCalls == 3

\* a third bulk-ingested row, holding the identifier "g1"
LinkPlaces ==
  InitialPlaces(NULL)
  @@
  (<<"gers_", 3>> :>
     [name |-> "Joe's Pizza", lat |-> 9, lon |-> 0, primary_category |-> NULL,
      google_place_id |-> "g1", apple_place_id |-> NULL,
      street |-> NULL, city |-> NULL, state |-> NULL,
      postcode |-> NULL, country |-> NULL])

InitLink ==
  /\ db = [places |-> LinkPlaces, custom_places |-> <<>>]
  /\ NoResolve
  /\ log = <<>>
  /\ NoSearch
  /\ NoMerge
  /\ NoCacheKey
  /\ NoReply
  /\ NoRoutes

LogEntry(call, t, id, col, v) ==
  [call |-> call, table |-> t, id |-> id, column |-> col, value |-> v,
   found |-> IF id \in DOMAIN db[t] THEN db[t][id][col] ELSE NULL]

\* POST /places/sync-pli
link_syncPLI ==
  /\ Len(log) < MaxCalls
  /\ \E placeId \in PlaceIds, platform \in Platforms :
       \E pli \in (IF platform = "ios" THEN AppleIds ELSE GoogleIds) :
         /\ db' = syncPLI_result(db, placeId, platform, pli)[1]
         /\ log' = Append(log, LogEntry("syncPLI", syncPLI_table(placeId),
                                        placeId, syncPLI_column(platform), pli))
  /\ UNCHANGED <<pc, request, match, placeData, response, searchVars, restVars>>

\* the cachePLI of a resolve whose conflate_place ran before any of the calls
link_cachePLI ==
  /\ Len(log) < MaxCalls
  /\ \E rq \in ResolveRequests :
       \E m \in conflate_place([places |-> LinkPlaces, custom_places |-> <<>>], rq) :
         /\ m # NoMatch
         /\ cachePLI_updates(rq) # {}
         /\ db' = cachePLI(db, m.matched_source, m.matched_id, rq)
         /\ log' = Append(log, LogEntry("cachePLI", m.matched_source,
                                        m.matched_id, cachePLI_column(rq),
                                        rq[cachePLI_column(rq)]))
  /\ UNCHANGED <<pc, request, match, placeData, response, searchVars, restVars>>

NextLink == link_syncPLI \/ link_cachePLI

SpecLink == InitLink /\ [][NextLink]_vars

(***************************************************************************)
(* The merge step of the search orchestrator: candidates of different      *)
(* providers are grouped when they are closer than the proximity threshold *)
(* and their normalized names are more similar than the name threshold;    *)
(* each group yields one entry, its member of the highest-priority         *)
(* provider.                                                               *)
(***************************************************************************)
\* number of candidate places the providers return together
MaxPlaces == 2

proximity_threshold == 50
name_threshold == 70

\* lower = higher priority
ProviderPriority == [local |-> 1, google |-> 2, refuge |-> 3]

PlaceNames ==
  {"Blue Bottle Coffee", "blue bottle coffee!", "Blue Bottle Cafe", "Starbucks"}

\* case-folded, punctuation-stripped, whitespace-collapsed
normalizeName(n) ==
  IF n \in {"Blue Bottle Coffee", "blue bottle coffee!"} THEN "blue bottle coffee"
  ELSE IF n = "Blue Bottle Cafe" THEN "blue bottle cafe"
  ELSE IF n = "Starbucks" THEN "starbucks"
  ELSE n

\* similarity of two normalized names in percent
nameSimilarity(a, b) ==
  IF a = b THEN 100
  ELSE IF {a, b} = {"blue bottle coffee", "blue bottle cafe"} THEN 75
  ELSE 10

\* great-circle distance of two places in metres
haversine(a, b) ==
  Distance(a.location.lat, a.location.lon, b.location.lat, b.location.lon)

\* Place.confidence in percent, as the providers report it
Confidences == {90, 100}

\* the places the providers may return
MergePlaces ==
  {[provider |-> pr, name |-> n, location |-> [lat |-> x, lon |-> 0],
    confidence |-> c] :
     pr \in Providers, n \in PlaceNames, x \in 0..2, c \in Confidences}

\* both conditions of the grouping hold for a and b
isNearAndSimilar(a, b) ==
  /\ haversine(a, b) < proximity_threshold
  /\ nameSimilarity(normalizeName(a.name), normalizeName(b.name)) > name_threshold

\* candidates a and b are grouped
isDuplicate(a, b) == a.provider # b.provider /\ isNearAndSimilar(a, b)

\* the group of the candidates with index in S
RECURSIVE Group(_, _)
Group(places, S) ==
  LET T == S \cup {j \in 1..Len(places) :
                     \E i \in S : isDuplicate(places[i], places[j])}
  IN IF T = S THEN S ELSE Group(places, T)

\* the surviving representative of group G
Representative(places, G) ==
  CHOOSE i \in G :
    \A j \in G :
      \/ ProviderPriority[places[i].provider] < ProviderPriority[places[j].provider]
      \/ /\ ProviderPriority[places[i].provider] = ProviderPriority[places[j].provider]
         /\ i <= j

\* the fixed increment for a place two or more providers agree on, in percent
corroboration_boost == 10

\* the largest confidence of the members of group G
MaxConfidence(places, G) ==
  CHOOSE c \in {places[i].confidence : i \in G} :
    \A i \in G : places[i].confidence <= c

\* mergedConfidence without the cap at 1.0
mergedConfidence_Uncapped(places, G) ==
  IF Cardinality({places[i].provider : i \in G}) >= 2
  THEN MaxConfidence(places, G) + corroboration_boost
  ELSE MaxConfidence(places, G)

\* the confidence of the entry of group G: the maximum of the members,
\* boosted when two or more providers agree, capped at 1.0
mergedConfidence(places, G) ==
  IF Cardinality({places[i].provider : i \in G}) >= 2
  THEN IF MaxConfidence(places, G) + corroboration_boost > 100 THEN 100
       ELSE MaxConfidence(places, G) + corroboration_boost
  ELSE MaxConfidence(places, G)

\* the entry group G yields
MergedEntry(places, G) ==
  [name |-> places[Representative(places, G)].name,
   location |-> places[Representative(places, G)].location,
   provider |-> places[Representative(places, G)].provider,
   confidence |-> mergedConfidence(places, G),
   sources |-> {places[i].provider : i \in G}]

RECURSIVE mergeFrom(_, _)
mergeFrom(places, i) ==
  IF i > Len(places) THEN <<>>
  ELSE (IF \A j \in Group(places, {i}) : i <= j
        THEN <<MergedEntry(places, Group(places, {i}))>> ELSE <<>>)
       \o mergeFrom(places, i + 1)

\* the merged result set of the candidates, in their processing order
mergeResults(places) == mergeFrom(places, 1)

\* the location of the search query
QueryLocation == [lat |-> 0, lon |-> 0]

\* Place.distance: metres from the search point
distance_m(e) ==
  Distance(QueryLocation.lat, QueryLocation.lon, e.location.lat, e.location.lon)

\* rankBefore ordering by ascending confidence
rankBefore_Ascending(a, b) ==
  \/ a.confidence < b.confidence
  \/ a.confidence = b.confidence /\ distance_m(a) < distance_m(b)
  \/ /\ a.confidence = b.confidence /\ distance_m(a) = distance_m(b)
     /\ ProviderPriority[a.provider] < ProviderPriority[b.provider]

\* a ranks strictly before b: confidence descending, then distance ascending,
\* then provider priority ascending
rankBefore(a, b) ==
  \/ a.confidence > b.confidence
  \/ a.confidence = b.confidence /\ distance_m(a) < distance_m(b)
  \/ /\ a.confidence = b.confidence /\ distance_m(a) = distance_m(b)
     /\ ProviderPriority[a.provider] < ProviderPriority[b.provider]

\* e inserted into the ranked sequence s behind the entries it does not beat
RECURSIVE rankInsert(_, _)
rankInsert(s, e) ==
  IF Len(s) = 0 THEN <<e>>
  ELSE IF rankBefore(e, Head(s)) THEN <<e>> \o s
  ELSE <<Head(s)>> \o rankInsert(Tail(s), e)

\* the stable sort of the first n entries by the tie-break chain
RECURSIVE rankFrom(_, _)
rankFrom(entries, n) ==
  IF n = 0 THEN <<>>
  ELSE rankInsert(rankFrom(entries, n - 1), entries[n])

rankResults(entries) == rankFrom(entries, Len(entries))

(***************************************************************************)
(* SpecMerge: the merge step applied to every sequence of candidates.      *)
(***************************************************************************)
InitMerge ==
  /\ db = [places |-> InitialPlaces(NULL), custom_places |-> <<>>]
  /\ NoResolve
  /\ log = <<>>
  /\ NoSearch
  /\ mergeInput \in UNION {[1..n -> MergePlaces] : n \in 0..MaxPlaces}
  /\ mergeOutput = NotMerged
  /\ NoCacheKey
  /\ NoReply
  /\ NoRoutes

merge ==
  /\ mergeOutput = NotMerged
  /\ mergeOutput' = mergeResults(mergeInput)
  /\ UNCHANGED <<pliVars, log, searchVars, mergeInput, keyVars, reply, routeVars>>

NextMerge == merge

SpecMerge == InitMerge /\ [][NextMerge]_vars

(***************************************************************************)
(* SpecSearch: POST /api/v1/search.  validateBody, then the handler calls  *)
(* orchestrator.search: cache check, one task per enabled provider, join   *)
(* of the settled tasks, merge, cache write; the handler answers 200 or,   *)
(* when search throws, 500.                                                *)
(***************************************************************************)
\* what each provider returns for the query when it succeeds
ProviderPlaces ==
  [local |->
     <<[provider |-> "local", name |-> "Blue Bottle Coffee",
        location |-> [lat |-> 0, lon |-> 0], confidence |-> 90]>>,
   google |->
     <<[provider |-> "google", name |-> "blue bottle coffee!",
        location |-> [lat |-> 0, lon |-> 0], confidence |-> 90],
       [provider |-> "google", name |-> "Starbucks",
        location |-> [lat |-> 2, lon |-> 0], confidence |-> 90]>>,
   refuge |->
     <<[provider |-> "refuge", name |-> "Starbucks",
        location |-> [lat |-> 1, lon |-> 0], confidence |-> 100]>>]

\* the providers in priority order
ProviderOrder == <<"local", "google", "refuge">>

\* the places of the providers in S, concatenated in priority order
RECURSIVE placesOf(_, _)
placesOf(S, i) ==
  IF i > Len(ProviderOrder) THEN <<>>
  ELSE (IF ProviderOrder[i] \in S THEN ProviderPlaces[ProviderOrder[i]] ELSE <<>>)
       \o placesOf(S, i + 1)

\* the ProviderResult search builds from the providers that succeeded
searchResult(S) ==
  [places |-> rankResults(mergeResults(placesOf(S, 1))),
   metadata |-> [count |-> Len(mergeResults(placesOf(S, 1))),
                 cached |-> FALSE, sources |-> S]]

\* searchResult of every set of providers
SearchResults == [S \in SUBSET Providers |-> searchResult(S)]

\* the 400 of validateBody
validation_failed == [status |-> 400, body |-> [error |-> "Validation failed"]]

\* c.json({success: true, results, metadata}) of the handler
search_ok(result) ==
  [status |-> 200,
   body |-> [success |-> TRUE, results |-> result.places,
             metadata |-> [count |-> result.metadata.count,
                           cached |-> result.metadata.cached,
                           sources |-> result.metadata.sources]]]

\* a variant of the catch block that answers 200
search_failed_Status200(message) ==
  [status |-> 200,
   body |-> [success |-> FALSE, error |-> "Search failed", message |-> message]]

\* the catch block of the handler
search_failed(message) ==
  [status |-> 500,
   body |-> [success |-> FALSE, error |-> "Search failed", message |-> message]]

\* what redis holds under a key is NoEntry, the text of a value, or a text
\* that is no JSON; a command and JSON.parse return a value or throw
InvalidJSON == [json |-> FALSE]
stringify(value) == [json |-> TRUE, value |-> value]
JSON_parse(text) ==
  IF text.json THEN [threw |-> FALSE, value |-> text.value]
  ELSE [threw |-> TRUE, value |-> NoEntry]
redis_get(entry, up) ==
  IF up THEN [threw |-> FALSE, value |-> entry]
  ELSE [threw |-> TRUE, value |-> NoEntry]
redis_setex(entry, text, up) ==
  IF up THEN [threw |-> FALSE, value |-> text]
  ELSE [threw |-> TRUE, value |-> entry]

\* a variant of getSearchResults that never finds the key
getSearchResults_AlwaysNull(entry, up) == NoEntry

\* CacheService.getSearchResults: the parsed entry, or null (NoEntry) when
\* there is none and when redis.get or JSON.parse throws
getSearchResults(entry, up) ==
  LET cached == redis_get(entry, up) IN
    IF cached.threw THEN NoEntry
    ELSE IF cached.value = NoEntry THEN NoEntry
    ELSE IF JSON_parse(cached.value).threw THEN NoEntry
    ELSE JSON_parse(cached.value).value

\* a variant of setSearchResults without the try/catch
setSearchResults_NoCatch(entry, result, up) ==
  redis_setex(entry, stringify(result), up)

\* CacheService.setSearchResults: value is the entry afterwards, threw
\* whether the call raised
setSearchResults(entry, result, up) ==
  [redis_setex(entry, stringify(result), up) EXCEPT !.threw = FALSE]

\* CacheService.getPlace and setPlace, on the entry of place:{id}
getPlace(entry, up) ==
  LET cached == redis_get(entry, up) IN
    IF cached.threw THEN NoEntry
    ELSE IF cached.value = NoEntry THEN NoEntry
    ELSE IF JSON_parse(cached.value).threw THEN NoEntry
    ELSE JSON_parse(cached.value).value
setPlace(entry, place, up) ==
  [redis_setex(entry, stringify(place), up) EXCEPT !.threw = FALSE]

\* the provider configuration: any non-empty set of providers is enabled
InitSearch ==
  /\ db = [places |-> InitialPlaces(NULL), custom_places |-> <<>>]
  /\ NoResolve
  /\ log = <<>>
  /\ enabled \in (SUBSET Providers) \ {{}}
  /\ task = [pr \in Providers |-> "idle"]
  /\ searchPc = "idle"
  /\ searchResponse = NoResponse
  /\ searchCache = NoEntry
  /\ arrival = <<>>
  /\ redisUp \in BOOLEAN
  /\ NoMerge
  /\ NoCacheKey
  /\ NoReply
  /\ NoRoutes

\* request bodies of POST /search: the numeric fields; has names the
\* optional fields that are present
SearchBodies ==
  [lat : {-91, 0, 90}, lon : {-181, 0, 180}, radius : {0, 1, 50001},
   limit : {0, 100, 101}, offset : {-1, 0},
   has : SUBSET {"radius", "limit", "offset"}]

\* searchQuerySchema.parse: whether the body passes
searchQuerySchema(body) ==
  /\ body.lat >= -90 /\ body.lat =< 90
  /\ body.lon >= -180 /\ body.lon =< 180
  /\ "radius" \in body.has => body.radius >= 1 /\ body.radius =< 50000
  /\ "limit" \in body.has => body.limit >= 1 /\ body.limit =< 100
  /\ "offset" \in body.has => body.offset >= 0

\* the request arrives: validation, cacheService.getSearchResults, and on
\* a miss one task per enabled provider
search_start ==
  /\ searchPc = "idle"
  /\ \E body \in SearchBodies :
       LET valid == searchQuerySchema(body)
           cached == getSearchResults(searchCache, redisUp) IN
       IF ~ valid
       THEN /\ searchResponse' = validation_failed
            /\ searchPc' = "done"
            /\ UNCHANGED task
       ELSE IF cached # NoEntry
       THEN /\ searchResponse' =
                 search_ok([cached EXCEPT !.metadata.cached = TRUE])
            /\ searchPc' = "done"
            /\ UNCHANGED task
       ELSE /\ task' = [pr \in Providers |->
                          IF pr \in enabled THEN "pending" ELSE "idle"]
            /\ searchPc' = "fanout"
            /\ UNCHANGED searchResponse
  /\ UNCHANGED <<pliVars, log, enabled, redisUp, searchCache, arrival, restVars>>

\* provider pr answers within its timeout
provider_ok(pr) ==
  /\ searchPc = "fanout" /\ task[pr] = "pending"
  /\ task' = [task EXCEPT ![pr] = "ok"]
  /\ arrival' = Append(arrival, pr)
  /\ UNCHANGED <<pliVars, log, enabled, redisUp, searchPc, searchResponse, searchCache,
                 restVars>>

\* provider pr times out or errors
provider_fail(pr) ==
  /\ searchPc = "fanout" /\ task[pr] = "pending"
  /\ \E outcome \in {"timeout", "error"} :
       task' = [task EXCEPT ![pr] = outcome]
  /\ arrival' = Append(arrival, pr)
  /\ UNCHANGED <<pliVars, log, enabled, redisUp, searchPc, searchResponse, searchCache,
                 restVars>>

\* a join that waits until every task has succeeded
AllSettled_AllOk(en, t) == \A pr \in en : t[pr] = "ok"

\* every task has answered, failed or reached its timeout
AllSettled(en, t) == \A pr \in en : t[pr] # "pending"

\* every task has settled: merge what succeeded, cacheService
\* .setSearchResults and answer, or throw AllProvidersFailed
search_join ==
  /\ searchPc = "fanout"
  /\ AllSettled(enabled, task)
  /\ LET succeeded == {pr \in enabled : task[pr] = "ok"}
         result == SearchResults[succeeded]
         written == setSearchResults(searchCache, result, redisUp)
     IN
       IF succeeded = {}
       THEN /\ searchResponse' = search_failed("AllProvidersFailed")
            /\ UNCHANGED searchCache
       ELSE /\ searchResponse' =
                 IF written.threw THEN search_failed("cache")
                 ELSE search_ok(result)
            /\ searchCache' = written.value
  /\ searchPc' = "done"
  /\ UNCHANGED <<pliVars, log, enabled, redisUp, task, arrival, restVars>>

\* the response has been sent
search_return ==
  /\ searchPc = "done"
  /\ searchPc' = "idle"
  /\ searchResponse' = NoResponse
  /\ task' = [pr \in Providers |-> "idle"]
  /\ arrival' = <<>>
  /\ UNCHANGED <<pliVars, log, enabled, redisUp, searchCache, restVars>>

\* the TTL of the cache entry runs out
cache_expire ==
  /\ searchCache # NoEntry
  /\ searchCache' = NoEntry
  /\ UNCHANGED <<pliVars, log, enabled, task, searchPc, searchResponse, arrival,
                 redisUp, restVars>>

\* the connection to redis is lost or comes back
redis_toggle ==
  /\ redisUp' = ~ redisUp
  /\ UNCHANGED <<pliVars, log, enabled, task, searchPc, searchResponse,
                 searchCache, arrival, restVars>>

\* the value under the key is damaged: what is stored is no JSON text
cache_corrupt ==
  /\ searchCache \notin {NoEntry, InvalidJSON}
  /\ searchCache' = InvalidJSON
  /\ UNCHANGED <<pliVars, log, enabled, task, searchPc, searchResponse, arrival,
                 redisUp, restVars>>

NextSearch ==
  \/ search_start
  \/ \E pr \in Providers : provider_ok(pr)
  \/ \E pr \in Providers : provider_fail(pr)
  \/ search_join
  \/ search_return
  \/ cache_expire
  \/ redis_toggle
  \/ cache_corrupt

SpecSearch == InitSearch /\ [][NextSearch]_vars

\* the step of search_join as the program counter shows it
join_settled ==
  searchPc = "fanout" /\ AllSettled(enabled, task) /\ searchPc' = "done"

\* every provider call answers, errors or reaches its timeout, and the
\* join runs once all of them have
SearchFairness ==
  /\ WF_vars(\E pr \in Providers : provider_ok(pr) \/ provider_fail(pr))
  /\ WF_searchPc(join_settled)

SpecSearchLive == SpecSearch /\ SearchFairness

(***************************************************************************)
(* CacheService.generateCacheKey.  An object is modelled with its keys in  *)
(* insertion order, which is the order Object.keys and JSON.stringify      *)
(* follow; values are kept in their JSON text.                             *)
(***************************************************************************)
TopKeys == {"location", "query", "limit"}
LocationKeys == {"lat", "lon", "radius"}

\* the orders in which the keys of S can have been inserted
KeyOrders(S) ==
  {s \in [1..Cardinality(S) -> S] : \A i, j \in DOMAIN s : i # j => s[i] # s[j]}

\* query is undefined or a string, given by its characters; a number is
\* given by the text String(n)
Undefined == <<"undefined">>
ParamValues ==
  [query : {Undefined, <<>>, <<"c", "o", "f", "f", "e", "e">>, <<"a", "\"", ",">>},
   limit : {"20"},
   lat : {"40.7", "41.7"}, lon : {"-74.0"}, radius : {"2000"}]

\* keys : the top-level keys as inserted; location : the keys of the nested
\* location object as inserted; val : the value of every scalar key
ParamObjects ==
  [keys : KeyOrders(TopKeys), location : KeyOrders(LocationKeys),
   val : ParamValues]

\* Array.prototype.sort() without comparator: ascending UTF-16 code units
CodeUnitOrder == <<"lat", "limit", "location", "lon", "query", "radius">>
KeyRank(k) == CHOOSE i \in DOMAIN CodeUnitOrder : CodeUnitOrder[i] = k
sort(keys) ==
  CHOOSE s \in KeyOrders({keys[i] : i \in DOMAIN keys}) :
    \A i, j \in DOMAIN s : i < j => KeyRank(s[i]) < KeyRank(s[j])

\* JSON.stringify of a string: quoted, with quote and backslash escaped
RECURSIVE escape(_)
escape(chars) ==
  IF chars = <<>> THEN <<>>
  ELSE (IF Head(chars) \in {"\"", "\\"} THEN <<"\\", Head(chars)>>
        ELSE <<Head(chars)>>) \o escape(Tail(chars))
JSON_quote(chars) == <<"\"">> \o escape(chars) \o <<"\"">>

\* JSON.stringify of a number: its text, null for a non-finite one
JSON_number(text) ==
  IF text \in {"Infinity", "-Infinity", "NaN"} THEN "null" ELSE text

\* JSON.stringify: the members in the object's own key order, a nested
\* object in its own key order too
RECURSIVE stringifyMembers(_, _, _)
stringifyMembers(keys, val, nested) ==
  IF keys = <<>> THEN <<>>
  ELSE LET k == Head(keys)
           v == IF k = "location"
                  THEN <<"{">> \o stringifyMembers(nested, val, <<>>) \o <<"}">>
                  ELSE IF k = "query" THEN JSON_quote(val[k])
                  ELSE <<JSON_number(val[k])>>
       IN  <<k, ":">> \o v \o (IF Len(keys) > 1 THEN <<",">> ELSE <<>>)
             \o stringifyMembers(Tail(keys), val, nested)

\* a member whose value is undefined is left out
RECURSIVE presentKeys(_, _)
presentKeys(keys, val) ==
  IF keys = <<>> THEN <<>>
  ELSE (IF Head(keys) = "query" /\ val.query = Undefined THEN <<>>
        ELSE <<Head(keys)>>) \o presentKeys(Tail(keys), val)

JSON_stringify(o) ==
  <<"{">> \o stringifyMembers(presentKeys(o.keys, o.val), o.val, o.location)
        \o <<"}">>

\* a variant that builds the key from the location only
generateCacheKey_LocationOnly(prefix, params) ==
  LET sortedParams == [params EXCEPT !.keys = <<"location">>]
  IN  <<prefix, ":">> \o JSON_stringify(sortedParams)

\* sortedParams takes the top-level keys in sorted order and every value,
\* the location object included, as it is
generateCacheKey(prefix, params) ==
  LET sortedParams == [params EXCEPT !.keys = sort(params.keys)]
  IN  <<prefix, ":">> \o JSON_stringify(sortedParams)

InitCacheKey ==
  /\ db = [places |-> InitialPlaces(NULL), custom_places |-> <<>>]
  /\ NoResolve
  /\ log = <<>>
  /\ NoSearch
  /\ NoMerge
  /\ cacheParams \in ParamObjects \X ParamObjects
  /\ cacheKeys = <<>>
  /\ NoReply
  /\ NoRoutes

\* getSearchResults / setSearchResults derive the key of each object
generate ==
  /\ cacheKeys = <<>>
  /\ cacheKeys' = <<generateCacheKey("search", cacheParams[1]),
                    generateCacheKey("search", cacheParams[2])>>
  /\ UNCHANGED <<pliVars, log, searchVars, mergeVars, cacheParams, reply,
                 routeVars>>

\* setSearchResults stores under the key of the first object the result
\* computed for it, then getSearchResults reads the key of the second:
\* redis returns the entry when the two keys are the same string
set_then_get ==
  /\ cacheKeys # <<>>
  /\ searchCache = NoEntry
  /\ cacheKeys[1] = cacheKeys[2]
  /\ searchCache' = [hit |-> TRUE, storedFor |-> cacheParams[1]]
  /\ UNCHANGED <<pliVars, log, enabled, task, searchPc, searchResponse, arrival,
                 redisUp, mergeVars, keyVars, reply, routeVars>>

NextCacheKey == generate \/ set_then_get

SpecCacheKey == InitCacheKey /\ [][NextCacheKey]_vars

(***************************************************************************)
(* The /places endpoints served one request at a time: resolve, sync-pli,  *)
(* bridge and find-nearby, with the last request and its response in       *)
(* `reply`.                                                                *)
(***************************************************************************)
\* resolveSchema accepts an empty string as google_place_id
EmptyIdRequest ==
  [google_place_id |-> "", apple_place_id |-> NULL,
   lat |-> 0, lon |-> 0, name |-> "Blue Bottle", category |-> "cafe",
   address |-> AddrNone, source_platform |-> "android"]

PlacesRequests == ResolveRequests \cup {EmptyIdRequest}

\* POST /places/resolve run to its end: the RPC, then the cachePLI of the
\* match branch or the insert of the create branch
places_resolve ==
  /\ \E rq \in PlacesRequests : \E m \in conflate_place(db, rq) :
       LET call == [endpoint |-> "resolve", request |-> rq] IN
       IF m.matched_source \in Tables
       THEN /\ db' = cachePLI(db, m.matched_source, m.matched_id, rq)
            /\ reply' = [call |-> call] @@
                 resolve_ok(resolve_matched(rq, m,
                                            db[m.matched_source][m.matched_id]))
       ELSE LET id == NextCustomId(db)
                ins == InsertCustom(db, id, createCustomPlace_row(rq))
            IN /\ Cardinality(DOMAIN db["custom_places"]) < MaxCustom
               /\ db' = ins[1]
               /\ reply' = [call |-> call] @@
                    (IF ins[2] THEN resolve_failed
                     ELSE resolve_ok(resolve_created(rq, id)))
  /\ UNCHANGED <<pc, request, match, placeData, response, log, searchVars,
                 mergeVars, keyVars, routeVars>>

\* the ids requests name: the rows of places and ids of custom_places
RequestedIds == PlaceIds \cup CustomIds

\* POST /places/sync-pli: syncPLISchema, then c.json(result)
places_sync_pli ==
  /\ \E valid \in BOOLEAN, placeId \in RequestedIds, platform \in Platforms :
       \E pli \in (IF platform = "ios" THEN AppleIds ELSE GoogleIds) :
         LET result == syncPLI_result(db, placeId, platform, pli)
             call == [endpoint |-> "sync-pli", place_id |-> placeId,
                      platform |-> platform, pli |-> pli]
         IN IF ~ valid
            THEN /\ reply' = [call |-> [endpoint |-> "sync-pli"],
                              status |-> 400,
                              body |-> [success |-> FALSE,
                                        code |-> "VALIDATION_ERROR"]]
                 /\ UNCHANGED db
            ELSE /\ reply' = [call |-> call, status |-> 200,
                              body |-> result[2]]
                 /\ db' = result[1]
  /\ UNCHANGED <<pc, request, match, placeData, response, log, searchVars,
                 mergeVars, keyVars, routeVars>>

\* getBridge with the hint taken from the other platform's field
getBridge_OtherField(d, placeId, targetPlatform, error) ==
  LET table == syncPLI_table(placeId) IN
    IF error \/ placeId \notin DOMAIN d[table]
    THEN [threw |-> TRUE]
    ELSE LET data == d[table][placeId]
             targetPli == IF targetPlatform = "ios" THEN data.google_place_id
                          ELSE data.apple_place_id
         IN [threw |-> FALSE,
             value |->
               [place_id |-> placeId, name |-> data.name,
                lat |-> data.lat, lon |-> data.lon,
                category |-> data.primary_category,
                target_pli |-> OrUndefined(targetPli),
                resolution_hint |->
                  IF targetPli \notin {NULL, ""} THEN "cached"
                  ELSE "search_required",
                address |-> formatAddress(data.street, data.city, data.state,
                                          data.postcode, data.country, <<>>)]]

\* PLIService.getBridge: the select ... .single() fails (error) or finds
\* the row; `targetPli ? 'cached' : 'search_required'`.  The select list
\* has no formatted_address, so formattedAddress is undefined.
getBridge(d, placeId, targetPlatform, error) ==
  LET table == syncPLI_table(placeId) IN
    IF error \/ placeId \notin DOMAIN d[table]
    THEN [threw |-> TRUE]
    ELSE LET data == d[table][placeId]
             targetPli == IF targetPlatform = "ios" THEN data.apple_place_id
                          ELSE data.google_place_id
         IN [threw |-> FALSE,
             value |->
               [place_id |-> placeId, name |-> data.name,
                lat |-> data.lat, lon |-> data.lon,
                category |-> data.primary_category,
                target_pli |-> OrUndefined(targetPli),
                resolution_hint |->
                  IF targetPli \notin {NULL, ""} THEN "cached"
                  ELSE "search_required",
                address |-> formatAddress(data.street, data.city, data.state,
                                          data.postcode, data.country, <<>>)]]

\* the values of ?target_platform=; NULL when the parameter is missing
TargetPlatforms == {"ios", "android", "web", "", NULL}

\* the catch block of GET /places/:id/bridge
bridge_not_found ==
  [status |-> 404,
   body |-> [success |-> FALSE, code |-> "NOT_FOUND"]]

\* GET /places/:id/bridge; lookup tells whether getBridge was called
places_bridge ==
  /\ \E placeId \in RequestedIds, targetPlatform \in TargetPlatforms,
        error \in BOOLEAN :
       LET call == [endpoint |-> "bridge", place_id |-> placeId,
                    target_platform |-> targetPlatform]
           bridge == getBridge(db, placeId, targetPlatform, error)
       IN IF targetPlatform \in {NULL, ""}
             \/ targetPlatform \notin {"ios", "android"}
          THEN reply' = [call |-> call, status |-> 400, lookup |-> FALSE,
                         failed |-> FALSE,
                         body |-> [success |-> FALSE,
                                   code |-> "VALIDATION_ERROR"]]
          ELSE IF bridge.threw
          THEN reply' = [call |-> call, lookup |-> TRUE, failed |-> error]
                          @@ bridge_not_found
          ELSE reply' = [call |-> call, status |-> 200, lookup |-> TRUE,
                         failed |-> FALSE,
                         body |-> [success |-> TRUE] @@ bridge.value]
  /\ UNCHANGED <<pliVars, log, searchVars, mergeVars, keyVars, routeVars>>

\* the radius_meters a body carries (10..500, default 100)
Radii == {30, 100}
\* the positions find-nearby is asked about
NearbyLats == {0, 2, 6}

\* the rows within the radius
WithinRadius(d, lat, lon, radius) ==
  {e \in AllRows(d) :
     Distance(lat, lon, d[e[1]][e[2]].lat, d[e[1]][e[2]].lon) <= radius}

\* the rows within the radius that no row is nearer than
Nearest(d, lat, lon, radius) ==
  {e \in WithinRadius(d, lat, lon, radius) :
     \A o \in WithinRadius(d, lat, lon, radius) :
       Distance(lat, lon, d[e[1]][e[2]].lat, d[e[1]][e[2]].lon)
         <= Distance(lat, lon, d[o[1]][o[2]].lat, d[o[1]][o[2]].lon)}

\* data?.[0] is undefined
NoNearby == [place_id |-> NULL]

\* the values data?.[0] of the RPC find_nearby_place_new can take
find_nearby_place_new(d, lat, lon, radius) ==
  IF Nearest(d, lat, lon, radius) = {} THEN {NoNearby}
  ELSE {[place_id |-> e[2], place_name |-> d[e[1]][e[2]].name,
         distance_meters |->
           Distance(lat, lon, d[e[1]][e[2]].lat, d[e[1]][e[2]].lon),
         category |-> d[e[1]][e[2]].primary_category,
         street |-> d[e[1]][e[2]].street, city |-> d[e[1]][e[2]].city,
         state |-> d[e[1]][e[2]].state, postcode |-> d[e[1]][e[2]].postcode,
         country |-> d[e[1]][e[2]].country] :
          e \in Nearest(d, lat, lon, radius)}

\* PLIService.findNearby, place being data?.[0] of the RPC;
\* `if (error || !data?.[0]) return null`
findNearby(place, error) ==
  IF error \/ place = NoNearby THEN NoNearby
  ELSE [place_id |-> place.place_id, name |-> place.place_name,
        distance_meters |-> place.distance_meters,
        category |-> place.category,
        address |-> formatAddress(place.street, place.city, place.state,
                                  place.postcode, place.country, <<>>)]

\* POST /places/find-nearby: findNearbySchema, then success with the place
places_find_nearby ==
  /\ \E valid \in BOOLEAN, lat \in NearbyLats, radius \in Radii,
        error \in BOOLEAN :
       \E place \in find_nearby_place_new(db, lat, 0, radius) :
         IF ~ valid
         THEN reply' = [call |-> [endpoint |-> "find-nearby"], status |-> 400,
                        failed |-> FALSE,
                        body |-> [success |-> FALSE,
                                  code |-> "VALIDATION_ERROR"]]
         ELSE reply' = [call |-> [endpoint |-> "find-nearby", lat |-> lat,
                                  lon |-> 0, radius_meters |-> radius],
                        status |-> 200, failed |-> error,
                        body |-> [success |-> TRUE,
                                  nearby_place |-> findNearby(place, error)]]
  /\ UNCHANGED <<pliVars, log, searchVars, mergeVars, keyVars, routeVars>>

InitPlaces ==
  /\ \E g \in {NULL, "g1"} :
       db = [places |-> InitialPlaces(g), custom_places |-> <<>>]
  /\ NoResolve
  /\ log = <<>>
  /\ NoSearch
  /\ NoMerge
  /\ NoCacheKey
  /\ NoReply
  /\ NoRoutes

NextPlaces ==
  \/ places_resolve
  \/ places_sync_pli
  \/ places_bridge
  \/ places_find_nearby

SpecPlaces == InitPlaces /\ [][NextPlaces]_vars

(***************************************************************************)
(* GET /places/details-stream.  One action per await of an orchestrator    *)
(* call; stream.events are the SSE events written so far, in order.  The   *)
(* outcome of an orchestrator call is an input of the step: a value, or a  *)
(* rejection, which the handler's catch block turns into an 'error' event. *)
(***************************************************************************)
\* an orchestrator call rejects: as a value, and as a POI
Thrown == "throw"
ThrownPoi == [id |-> Thrown]
\* the query parameters: coordinate is lat && lon, name is the name given
StreamQueries ==
  [google_place_id : {NULL, "", "g1", "g2"}, coordinate : BOOLEAN,
   name : {NULL, "", "Cafe Uno"}]
\* what matchCanonicalPOI resolves to: a canonical POI; similarity is 0
\* when the row carries none
CanonicalPois ==
  [id : {"poi_1", "poi_2"}, source_type : {"overture"}, similarity : {0, 90}]
GoogleDetails == {NULL, "details"}

\* the payload of one writeSSE
sse_event(type, data) == [type |-> type, data |-> data]
poi_match_fast(existingMatch) ==
  sse_event("poi_match",
            [poi_id |-> existingMatch.id, confidence |-> 100,
             source_type |-> existingMatch.source_type, matched |-> TRUE,
             fast_path |-> TRUE])
poi_match_fuzzy(canonicalPoi) ==
  sse_event("poi_match",
            [poi_id |-> canonicalPoi.id,
             confidence |-> IF canonicalPoi.similarity # 0
                            THEN canonicalPoi.similarity ELSE 80,
             source_type |-> canonicalPoi.source_type, matched |-> TRUE,
             fast_path |-> FALSE])

\* the catch block: one 'error' event, and the callback returns
stream_failed ==
  [stream EXCEPT !.pc = "closed",
     !.events = Append(@, [type |-> "error", error |-> "Stream failed"])]

\* the request arrives: 400 without google_place_id, else the stream opens
stream_open ==
  /\ stream.pc = "idle"
  /\ \E q \in StreamQueries :
       stream' = IF q.google_place_id \in {NULL, ""}
                 THEN [stream EXCEPT !.pc = "rejected", !.status = 400,
                                     !.query = q]
                 ELSE [stream EXCEPT !.pc = "lookup", !.status = 200,
                                     !.query = q]
  /\ UNCHANGED <<pliVars, log, searchVars, mergeVars, keyVars, reply, auto>>

\* Promise.all of getGooglePlaceDetailsCached and the indexed
\* matchCanonicalPOI, the 'google' event, and what follows up to the next
\* orchestrator call
stream_lookup ==
  /\ stream.pc = "lookup"
  /\ \E googleDetails \in GoogleDetails \cup {Thrown},
        existingMatch \in CanonicalPois \cup {NoPoi, ThrownPoi} :
       stream' =
         IF googleDetails = Thrown \/ existingMatch = ThrownPoi
         THEN stream_failed
         ELSE IF existingMatch # NoPoi
         THEN [stream EXCEPT !.pc = "enrich", !.poi = existingMatch,
                 !.events = @ \o <<sse_event("google", googleDetails),
                                   poi_match_fast(existingMatch)>>]
         ELSE IF stream.query.coordinate /\ stream.query.name \notin {NULL, ""}
         THEN [stream EXCEPT !.pc = "fuzzy",
                 !.events = Append(@, sse_event("google", googleDetails))]
         ELSE [stream EXCEPT !.pc = "closed",
                 !.events = @ \o
                   <<sse_event("google", googleDetails),
                     sse_event("poi_match",
                       [matched |-> FALSE,
                        reason |-> "Missing coordinate or name for fuzzy matching"]),
                     [type |-> "complete"]>>]
  /\ UNCHANGED <<pliVars, log, searchVars, mergeVars, keyVars, reply, auto>>

\* the fuzzy matchCanonicalPOI of the slow path and its 'poi_match' event
stream_fuzzy ==
  /\ stream.pc = "fuzzy"
  /\ \E canonicalPoi \in CanonicalPois \cup {NoPoi, ThrownPoi} :
       stream' =
         IF canonicalPoi = ThrownPoi THEN stream_failed
         ELSE IF canonicalPoi # NoPoi
         THEN [stream EXCEPT !.pc = "enrich", !.poi = canonicalPoi,
                 !.events = Append(@, poi_match_fuzzy(canonicalPoi))]
         ELSE [stream EXCEPT !.pc = "closed",
                 !.events = @ \o <<sse_event("poi_match", [matched |-> FALSE]),
                                   [type |-> "complete"]>>]
  /\ UNCHANGED <<pliVars, log, searchVars, mergeVars, keyVars, reply, auto>>

\* fetchEnrichments, the 'enrichments' event, on the slow path the
\* linkGooglePlaceId sent off in the background, and 'complete'
stream_enrich ==
  /\ stream.pc = "enrich"
  /\ \E enrichments \in {"none", "reviews", Thrown} :
       stream' =
         IF enrichments = Thrown THEN stream_failed
         ELSE [stream EXCEPT !.pc = "closed",
                 !.events = @ \o <<sse_event("enrichments", enrichments),
                                   [type |-> "complete"]>>,
                 !.links = IF stream.events[Len(stream.events)].data.fast_path
                           THEN @
                           ELSE @ \cup {<<stream.poi.id,
                                          stream.query.google_place_id>>}]
  /\ UNCHANGED <<pliVars, log, searchVars, mergeVars, keyVars, reply, auto>>

\* the response has ended; the next request starts a new stream
stream_end ==
  /\ stream.pc \in {"closed", "rejected"}
  /\ stream' = [NoStream EXCEPT !.links = stream.links]
  /\ UNCHANGED <<pliVars, log, searchVars, mergeVars, keyVars, reply, auto>>

InitStream ==
  /\ db = [places |-> InitialPlaces(NULL), custom_places |-> <<>>]
  /\ NoResolve
  /\ log = <<>>
  /\ NoSearch
  /\ NoMerge
  /\ NoCacheKey
  /\ NoReply
  /\ NoRoutes

NextStream ==
  \/ stream_open
  \/ stream_lookup
  \/ stream_fuzzy
  \/ stream_enrich
  \/ stream_end

SpecStream == InitStream /\ [][NextStream]_vars

(***************************************************************************)
(* GET /places/autocomplete.  auto.cache[k] is what redis holds under the  *)
(* key of the cache params k = <<input, location>>; auto.reply is the last *)
(* response, with the outcome of orchestrator.autocomplete (fetched) and   *)
(* the number of times it was called (fetches).                            *)
(***************************************************************************)
Suggestions == {<<>>, <<"s1">>, <<"s1", "s2">>}
NotFetched == <<"not fetched">>
FetchThrown == <<Thrown>>

\* CacheService.getAutocomplete and setAutocomplete, on the entry of the
\* params' key: as getPlace and setPlace, a failure is a miss or a no-op;
\* hit tells a found value from null
getAutocomplete(entry, up) ==
  LET cached == redis_get(entry, up) IN
    IF cached.threw THEN NoEntry
    ELSE IF cached.value = NoEntry THEN NoEntry
    ELSE IF JSON_parse(cached.value).threw THEN NoEntry
    ELSE [hit |-> TRUE, value |-> JSON_parse(cached.value).value]
setAutocomplete(entry, suggestions, up) ==
  [redis_setex(entry, stringify(suggestions), up) EXCEPT !.threw = FALSE]

\* a variant of the handler that fetches without looking into the cache
autocomplete_handler_NoCacheCheck(a, input, location, fetched, up) ==
  LET k == <<input, location>>
      call == [input |-> input, location |-> location]
  IN
    IF input \in {NULL, ""}
    THEN [a EXCEPT !.fetches = 0,
            !.reply = [call |-> call, status |-> 400, fetched |-> NotFetched,
                       body |-> [success |-> FALSE,
                                 error |-> "Input is required"]]]
    ELSE IF fetched = FetchThrown
    THEN [a EXCEPT !.fetches = 1,
            !.reply = [call |-> call, status |-> 500, fetched |-> fetched,
                       body |-> [success |-> FALSE,
                                 error |-> "Autocomplete failed"]]]
    ELSE [a EXCEPT !.fetches = 1,
            !.cache[k] = setAutocomplete(a.cache[k], fetched, up).value,
            !.reply = [call |-> call, status |-> 200, fetched |-> fetched,
                       body |-> [success |-> TRUE, input |-> input,
                                 suggestions |-> fetched,
                                 metadata |-> [cached |-> FALSE]]]]

\* the handler: 400 without input; the cached suggestions on a hit; else
\* orchestrator.autocomplete, setAutocomplete and the answer; 500 when
\* anything throws
autocomplete_handler(a, input, location, fetched, up) ==
  LET k == <<input, location>>
      call == [input |-> input, location |-> location]
      cached == getAutocomplete(a.cache[k], up)
  IN
    IF input \in {NULL, ""}
    THEN [a EXCEPT !.fetches = 0,
            !.reply = [call |-> call, status |-> 400, fetched |-> NotFetched,
                       body |-> [success |-> FALSE,
                                 error |-> "Input is required"]]]
    ELSE IF cached.hit
    THEN [a EXCEPT !.fetches = 0,
            !.reply = [call |-> call, status |-> 200, fetched |-> NotFetched,
                       body |-> [success |-> TRUE, input |-> input,
                                 suggestions |-> cached.value,
                                 metadata |-> [cached |-> TRUE]]]]
    ELSE IF fetched = FetchThrown
    THEN [a EXCEPT !.fetches = 1,
            !.reply = [call |-> call, status |-> 500, fetched |-> fetched,
                       body |-> [success |-> FALSE,
                                 error |-> "Autocomplete failed"]]]
    ELSE [a EXCEPT !.fetches = 1,
            !.cache[k] = setAutocomplete(a.cache[k], fetched, up).value,
            !.reply = [call |-> call, status |-> 200, fetched |-> fetched,
                       body |-> [success |-> TRUE, input |-> input,
                                 suggestions |-> fetched,
                                 metadata |-> [cached |-> FALSE]]]]

places_autocomplete ==
  /\ \E input \in AutocompleteInputs \cup {NULL},
        location \in AutocompleteLocations,
        fetched \in Suggestions \cup {FetchThrown} :
       auto' = autocomplete_handler(auto, input, location, fetched, redisUp)
  /\ UNCHANGED <<pliVars, log, searchVars, mergeVars, keyVars, reply, stream>>

\* the 30 days of an entry run out
autocomplete_expire ==
  /\ \E k \in AutocompleteKeys :
       /\ auto.cache[k] # NoEntry
       /\ auto' = [auto EXCEPT !.cache[k] = NoEntry]
  /\ UNCHANGED <<pliVars, log, searchVars, mergeVars, keyVars, reply, stream>>

\* the value under a key is damaged: what is stored is no JSON text
autocomplete_corrupt ==
  /\ \E k \in AutocompleteKeys :
       /\ auto.cache[k] \notin {NoEntry, InvalidJSON}
       /\ auto' = [auto EXCEPT !.cache[k] = InvalidJSON]
  /\ UNCHANGED <<pliVars, log, searchVars, mergeVars, keyVars, reply, stream>>

InitAutocomplete ==
  /\ db = [places |-> InitialPlaces(NULL), custom_places |-> <<>>]
  /\ NoResolve
  /\ log = <<>>
  /\ NoSearch
  /\ NoMerge
  /\ NoCacheKey
  /\ NoReply
  /\ NoRoutes

NextAutocomplete ==
  \/ places_autocomplete
  \/ autocomplete_expire
  \/ autocomplete_corrupt
  \/ redis_toggle

SpecAutocomplete == InitAutocomplete /\ [][NextAutocomplete]_vars

(***************************************************************************)
(* Properties of identity resolution.                                      *)
(***************************************************************************)
Field(d, e, col) == d[e[1]][e[2]][col]

\* the identifier of its source platform that request rq carries
SourcePLI(rq) == rq[cachePLI_column(rq)]

\* request p has returned 200 from the match branch
DoneMatched(p) ==
  /\ pc[p] = "done"
  /\ response[p].status = 200
  /\ response[p].body.resolution.method # "created_custom"

\* request p has returned 200 from the create branch
DoneCreated(p) ==
  /\ pc[p] = "done"
  /\ response[p].status = 200
  /\ response[p].body.resolution.method = "created_custom"

\* the row <<table, id>> that the response of p names
Returned(p) == <<response[p].body.place.source, response[p].body.place.id>>

\* C1: write-once.  No step of resolve (cachePLI) or syncPLI changes a
\* google_place_id or apple_place_id that is not null, and no row disappears.
C1_WriteOnce ==
  [][\A e \in AllRows(db), col \in Columns :
       Field(db, e, col) # NULL =>
         /\ e[2] \in DOMAIN db'[e[1]]
         /\ Field(db', e, col) = Field(db, e, col)]_vars

\* a resolve that matched a row and carried, for its source platform, another
\* identifier than the one the row holds has run its cachePLI
C1_Witness ==
  \E p \in Procs :
    /\ DoneMatched(p)
    /\ SourcePLI(request[p]) # NULL
    /\ Field(db, Returned(p), cachePLI_column(request[p]))
         \notin {NULL, SourcePLI(request[p])}

\* C3: identifier uniqueness.  No two distinct rows of places and
\* custom_places together hold the same non-null identifier in one column.
C3_IdentifierUnique ==
  \A e1 \in AllRows(db), e2 \in AllRows(db), col \in Columns :
    (e1 # e2 /\ Field(db, e1, col) # NULL) =>
      Field(db, e1, col) # Field(db, e2, col)

\* C4: concurrent creation race.  A resolve that went to the create branch
\* never fails the request: when its insert is rejected it still answers 200.
C4_CreateNeverFails ==
  [][\A p \in Procs :
       (pc[p] = "create" /\ pc'[p] = "done") => response'[p].status = 200]_vars

\* request p takes its conflate step and the RPC returns no error
Conflates(p) == pc[p] = "idle" /\ pc'[p] \in {"cachePLI", "create"}

\* request p takes the step of its match branch (cachePLI and return)
Links(p) == pc[p] = "cachePLI" /\ pc'[p] = "done"

\* request p takes the step of its create branch
Creates(p) == pc[p] = "create" /\ pc'[p] = "done"

\* the row <<table, id>> a candidate of the RPC names
MatchedRow(m) == <<m.matched_source, m.matched_id>>

\* the resolution resolve will report for candidate m
Resolution(rq, m) == resolve_matched(rq, m, NoRow).resolution

C6_LinksEverySupplied ==
  [][\A p \in Procs, col \in Columns :
       (Links(p) /\ request[p][col] # NULL /\ match[p][col] = NULL)
       => Field(db', MatchedRow(match[p]), col) = request[p][col]]_vars

\* C6 amended: after a match, the identifier of the source platform (google
\* for android, apple for ios), if supplied, is on the matched row provided
\* the column is null when the update runs and no other row of that table
\* holds the identifier; no other column of the row is written.
C6_LinksSourcePlatform ==
  [][\A p \in Procs :
       Links(p) =>
         LET rq == request[p]
             e == MatchedRow(match[p])
             c == cachePLI_column(rq)
         IN /\ ( /\ SourcePLI(rq) # NULL
                 /\ Field(db, e, c) = NULL
                 /\ ~ UniqueViolation(db, e[1], e[2], c, SourcePLI(rq)) )
               => Field(db', e, c) = SourcePLI(rq)
            /\ \A col \in DOMAIN db[e[1]][e[2]] \ {c} :
                 Field(db', e, col) = Field(db, e, col)]_vars

\* a matched resolve supplied both identifiers: the one of its source platform
\* is on the row, the other one is not
C6_Witness ==
  \E p \in Procs :
    /\ DoneMatched(p)
    /\ request[p].google_place_id # NULL /\ request[p].apple_place_id # NULL
    /\ Field(db, Returned(p), cachePLI_column(request[p])) = SourcePLI(request[p])
    /\ \E col \in Columns \ {cachePLI_column(request[p])} :
         Field(db, Returned(p), col) = NULL

C8_CreateNew ==
  [][\A p \in Procs :
       Creates(p) =>
         LET rq == request[p]
             new == DOMAIN db'["custom_places"] \ DOMAIN db["custom_places"]
         IN /\ Cardinality(new) = 1
            /\ db'["places"] = db["places"]
            /\ \A id \in DOMAIN db["custom_places"] :
                 db'["custom_places"][id] = db["custom_places"][id]
            /\ \A id \in new :
                 LET row == db'["custom_places"][id] IN
                 /\ startsWithCustom(id)
                 /\ row.name = rq.name /\ row.lat = rq.lat /\ row.lon = rq.lon
                 /\ row.primary_category = rq.category
                 /\ row.google_place_id = rq.google_place_id
                 /\ row.apple_place_id = rq.apple_place_id
                 /\ row.street = rq.address.street
                 /\ row.city = rq.address.city
                 /\ row.state = rq.address.state
                 /\ row.postcode = rq.address.postcode
                 /\ row.formatted_address = rq.address.formatted
                 /\ rq.address.country # NULL => row.country = rq.address.country
                 /\ response'[p].status = 200
                 /\ response'[p].body.place.id = id
                 /\ response'[p].body.resolution.method = "created_custom"
                 /\ response'[p].body.resolution.confidence = 50
                 /\ "distance_meters" \notin DOMAIN response'[p].body.resolution]_vars

(***************************************************************************)
(* Properties of the linkage calls (SpecLink).                             *)
(***************************************************************************)
\* calls i and j of the log write the same column of the same row
SameTarget(i, j) ==
  /\ log[i].table = log[j].table
  /\ log[i].id = log[j].id
  /\ log[i].column = log[j].column

\* C5 as claimed: when calls carrying different identifiers for one record and
\* platform have run and the field was null before the first of them, the
\* field holds the value of one of them.
C5_ExactlyOneStored ==
  \A i \in 1..Len(log), j \in 1..Len(log) :
    (i < j /\ SameTarget(i, j) /\ log[i].value # log[j].value
     /\ log[i].found = NULL)
    => \E k \in 1..Len(log) :
         /\ SameTarget(i, k)
         /\ db[log[i].table][log[i].id][log[i].column] = log[k].value

\* C5 amended: a call that finds the field set leaves it as it found it, for
\* good; a call that finds it null stores its value for good unless another
\* row of the table holds that value (the update is then rejected and the
\* field stays null until a later call is accepted).  So at most one of the
\* values is ever stored, and none when every call is rejected.
C5_FirstAcceptedStored ==
  \A i \in 1..Len(log) :
    LET c == log[i]
        now == db[c.table][c.id][c.column]
    IN /\ c.found # NULL => now = c.found
       /\ c.found = NULL =>
            \/ now = c.value
            \/ \E other \in DOMAIN db[c.table] \ {c.id} :
                 db[c.table][other][c.column] = c.value

\* a syncPLI and a cachePLI carried different identifiers for the same record
\* and platform: the first was stored, the second found it and left it
C5_Witness ==
  \E i \in 1..Len(log), j \in 1..Len(log) :
    /\ i < j /\ SameTarget(i, j)
    /\ log[i].call # log[j].call
    /\ log[i].value # log[j].value
    /\ log[i].found = NULL
    /\ log[j].found = log[i].value
    /\ db[log[i].table][log[i].id][log[i].column] = log[i].value

(***************************************************************************)
(* Properties of the search orchestration (SpecSearch, SpecMerge).         *)
(***************************************************************************)
\* the join step of the running search
Joins == searchPc = "fanout" /\ searchPc' = "done"

\* the enabled providers whose task succeeded
Succeeded == {pr \in enabled : task[pr] = "ok"}

\* C9: partial provider failure.  The search joins only settled tasks; if at
\* least one enabled provider succeeded it answers 200 with success true and
\* the merge of the places of exactly the providers that succeeded; it
\* answers 500 with success false and AllProvidersFailed exactly when every
\* enabled provider timed out or errored.
C9_PartialFailure ==
  [][Joins =>
       /\ enabled # {}
       /\ \A pr \in enabled : task[pr] \in {"ok", "timeout", "error"}
       /\ Succeeded # {} =>
            /\ searchResponse'.status = 200
            /\ searchResponse'.body.success = TRUE
            /\ searchResponse'.body.results = searchResult(Succeeded).places
            /\ searchResponse'.body.metadata.sources = Succeeded
            /\ \A i \in 1..Len(searchResponse'.body.results) :
                 /\ searchResponse'.body.results[i].sources \subseteq Succeeded
                 /\ \E pr \in Succeeded : \E k \in 1..Len(ProviderPlaces[pr]) :
                      /\ ProviderPlaces[pr][k].name = searchResponse'.body.results[i].name
                      /\ ProviderPlaces[pr][k].location =
                           searchResponse'.body.results[i].location
       /\ (Succeeded = {}) <=>
            /\ searchResponse'.status = 500
            /\ searchResponse'.body.success = FALSE
            /\ searchResponse'.body.message = "AllProvidersFailed"]_vars

\* a search answered 200 although one enabled provider timed out and another
\* one errored
C9_Witness ==
  /\ searchPc = "done"
  /\ searchResponse.status = 200
  /\ searchResponse.body.metadata.cached = FALSE
  /\ \E pr \in enabled : task[pr] = "timeout"
  /\ \E pr \in enabled : task[pr] = "error"
  /\ \E pr \in enabled : task[pr] = "ok"

\* C10: post-merge de-duplication.  No two distinct entries of a merged
\* result set are both closer than the proximity threshold and more similar
\* in normalized name than the name threshold.
C10_NoDuplicates ==
  mergeOutput # NotMerged =>
    \A i \in 1..Len(mergeOutput), j \in 1..Len(mergeOutput) :
      i # j => ~ isNearAndSimilar(mergeOutput[i], mergeOutput[j])

\* the sequence is ordered by the tie-break chain
Ranked(results) ==
  \A i \in 1..Len(results), j \in 1..Len(results) :
    i < j =>
      \/ results[i].confidence > results[j].confidence
      \/ /\ results[i].confidence = results[j].confidence
         /\ distance_m(results[i]) < distance_m(results[j])
      \/ /\ results[i].confidence = results[j].confidence
         /\ distance_m(results[i]) = distance_m(results[j])
         /\ ProviderPriority[results[i].provider]
              <= ProviderPriority[results[j].provider]

IsLeader(i) == \A j \in Group(mergeInput, {i}) : i <= j

\* the position in the merged result set of the entry of candidate i's group
EntryIndex(i) ==
  Cardinality({l \in 1..Len(mergeInput) :
                 /\ IsLeader(l)
                 /\ \A j \in Group(mergeInput, {i}) : l <= j})

\* candidate i belongs to a group with members of two or more providers
Corroborated(i) ==
  Cardinality({mergeInput[j].provider : j \in Group(mergeInput, {i})}) >= 2

SameParams(a, b) ==
  /\ {a.keys[i] : i \in DOMAIN a.keys} = {b.keys[i] : i \in DOMAIN b.keys}
  /\ {a.location[i] : i \in DOMAIN a.location}
       = {b.location[i] : i \in DOMAIN b.location}
  /\ a.val = b.val

C13_OrderIndependent ==
  (cacheKeys # <<>> /\ SameParams(cacheParams[1], cacheParams[2]))
    => cacheKeys[1] = cacheKeys[2]

\* the part that does hold: the order of the top-level keys does not matter
C13_TopLevelOrderIndependent ==
  (/\ cacheKeys # <<>>
   /\ SameParams(cacheParams[1], cacheParams[2])
   /\ cacheParams[1].location = cacheParams[2].location)
    => cacheKeys[1] = cacheKeys[2]

\* C14: a search whose key is present in the cache issues no provider call
\* and answers the stored result with metadata.cached = true; provider
\* calls are issued only after a cache miss.
SearchStarts ==
  searchPc = "idle" /\ searchPc' # "idle" /\ searchResponse' # validation_failed
KeyPresent == redisUp /\ searchCache \notin {NoEntry, InvalidJSON}
IssuesCall == \E pr \in Providers : task[pr] # "pending" /\ task'[pr] = "pending"

C14_CacheHitShortCircuit ==
  /\ [][(SearchStarts /\ KeyPresent) =>
          /\ ~ IssuesCall
          /\ task' = [pr \in Providers |-> "idle"]
          /\ searchResponse' =
               search_ok([searchCache.value EXCEPT !.metadata.cached = TRUE])]_vars
  /\ [][IssuesCall => (SearchStarts /\ ~ KeyPresent)]_vars

C14_Witness ==
  /\ searchPc = "done"
  /\ searchResponse.status = 200
  /\ searchResponse.body.metadata.cached
  /\ Len(searchResponse.body.results) > 0
  /\ \A pr \in Providers : task[pr] = "idle"

\* C15: when the cache backend fails (redis does not answer, or the stored
\* value is no JSON) getSearchResults and getPlace return null, and
\* setSearchResults and setPlace do not raise and change nothing, so the
\* search is answered as it is with an empty cache.
CacheFails == ~ redisUp \/ searchCache = InvalidJSON

C15_CacheBestEffort ==
  /\ [](CacheFails =>
          /\ getSearchResults(searchCache, redisUp) = NoEntry
          /\ getPlace(searchCache, redisUp) = NoEntry)
  /\ [](\A S \in SUBSET Providers :
          /\ ~ setSearchResults(searchCache, searchResult(S), redisUp).threw
          /\ ~ setPlace(searchCache, searchResult(S), redisUp).threw
          /\ ~ redisUp =>
               /\ setSearchResults(searchCache, searchResult(S), redisUp).value
                    = searchCache
               /\ setPlace(searchCache, searchResult(S), redisUp).value
                    = searchCache)
  /\ [][(SearchStarts /\ CacheFails) =>
          /\ searchPc' = "fanout"
          /\ task' = [pr \in Providers |->
                        IF pr \in enabled THEN "pending" ELSE "idle"]
          /\ searchResponse' = searchResponse]_vars
  /\ [][(Joins /\ ~ redisUp) =>
          /\ searchResponse' =
               IF Succeeded = {} THEN search_failed("AllProvidersFailed")
               ELSE search_ok(searchResult(Succeeded))
          /\ searchCache' = searchCache]_vars

\* a search went on to the providers although a parsable entry is stored
C15_Witness ==
  /\ searchPc = "fanout"
  /\ searchCache \notin {NoEntry, InvalidJSON}

\* C16: sync-pli reports success only if, when it returns, the record exists
\* and its field for the platform holds the identifier sent; a call that
\* finds the field populated by a different value, or no such record,
\* changes no record and is not reported as success.
SyncAnswered == places_sync_pli /\ reply'.status = 200

C16_SyncOutcomeUnambiguous ==
  [][SyncAnswered =>
       LET c == reply'.call
           t == syncPLI_table(c.place_id)
           col == syncPLI_column(c.platform)
       IN /\ reply'.body.success =>
               /\ c.place_id \in DOMAIN db'[t]
               /\ db'[t][c.place_id][col] = c.pli
          /\ (\/ c.place_id \notin DOMAIN db[t]
              \/ db[t][c.place_id][col] \notin {NULL, c.pli}) =>
               /\ db' = db
               /\ ~ reply'.body.success]_vars

\* C17: for an existing record and a target platform, the bridge answers
\* hint 'cached' with the stored identifier if and only if the record's
\* field for that platform is non-null, and otherwise 'search_required'
\* without identifier; the bridge changes no record.
BridgeAnswered ==
  reply # NoResponse /\ reply.call.endpoint = "bridge" /\ reply.status = 200
TargetField ==
  db[syncPLI_table(reply.call.place_id)][reply.call.place_id]
    [syncPLI_column(reply.call.target_platform)]
BridgeReadsOnly == [][places_bridge => db' = db]_vars

NearbyAnswered == places_find_nearby /\ reply'.status = 200
NearbyReadsOnly == [][places_find_nearby => db' = db]_vars

C18_NearbyExactlyWhenNone ==
  /\ [][NearbyAnswered =>
          LET c == reply'.call
              near == Nearest(db, c.lat, c.lon, c.radius_meters)
          IN /\ reply'.body.success
             /\ reply'.body.nearby_place = NoNearby <=> near = {}
             /\ near # {} =>
                  \E e \in near : reply'.body.nearby_place.place_id = e[2]]_vars
  /\ NearbyReadsOnly

\* what holds of find-nearby when the RPC answers
C18_NearbyWhenRpcAnswers ==
  [][(NearbyAnswered /\ ~ reply'.failed) =>
       LET c == reply'.call
           near == Nearest(db, c.lat, c.lon, c.radius_meters)
       IN /\ reply'.body.nearby_place = NoNearby <=> near = {}
          /\ near # {} =>
               \E e \in near : reply'.body.nearby_place.place_id = e[2]]_vars

\* C19: when the conflate_place RPC returns an error, the resolve endpoint
\* answers 500 with success false and a machine-readable code, and the call
\* creates or modifies no record.
ConflationFails(p) ==
  pc[p] = "idle" /\ pc'[p] = "done" /\ request'[p] # NoRequest

C19_ConflationFailure ==
  [][\A p \in Procs : ConflationFails(p) =>
       /\ response'[p].status = 500
       /\ response'[p].body.success = FALSE
       /\ response'[p].body.error.code = "RESOLUTION_FAILED"
       /\ db' = db]_vars

\* a resolve answered 500 while custom_places is empty: no insert was tried
C19_Witness ==
  \E p \in Procs :
    /\ pc[p] = "done"
    /\ request[p] # NoRequest
    /\ response[p].status = 500
    /\ DOMAIN db["custom_places"] = {}

\* C20: the bridge endpoint answers 400 exactly when target_platform is
\* missing or not ios/android, and then looks nothing up; it answers 404
\* exactly when no record has the id; an existing record with a valid
\* platform always yields success.
ValidTarget == reply'.call.target_platform \in {"ios", "android"}
RecordExists ==
  reply'.call.place_id \in DOMAIN db[syncPLI_table(reply'.call.place_id)]

C20_BridgeFailureCodes ==
  [][places_bridge =>
       /\ reply'.status = 400 <=> ~ ValidTarget
       /\ reply'.status = 400 => ~ reply'.lookup
       /\ reply'.status = 404 <=> (ValidTarget /\ ~ RecordExists)
       /\ (ValidTarget /\ RecordExists) =>
            (reply'.status = 200 /\ reply'.body.success)]_vars

\* what holds of the bridge endpoint when the select answers
C20_BridgeCodesWhenSelectAnswers ==
  [][(places_bridge /\ ~ reply'.failed) =>
       /\ reply'.status = 400 <=> ~ ValidTarget
       /\ reply'.status = 400 => ~ reply'.lookup
       /\ reply'.status = 404 <=> (ValidTarget /\ ~ RecordExists)
       /\ (ValidTarget /\ RecordExists) =>
            (reply'.status = 200 /\ reply'.body.success)]_vars

\* C21: on every output path (resolve on a match, bridge, find-nearby) the
\* formatted address returned is the record's stored pre-formatted string
\* when one is stored, and otherwise the comma-join of its non-empty
\* components street, city, state, postcode, country; it is absent only
\* when nothing is stored and every component is empty.
RECURSIVE NonEmpty(_)
NonEmpty(components) ==
  IF Len(components) = 0 THEN <<>>
  ELSE IF Head(components) \in {NULL, ""} THEN NonEmpty(Tail(components))
  ELSE <<Head(components)>> \o NonEmpty(Tail(components))

StoredFormatted(t, id) ==
  IF t = "custom_places" THEN db[t][id].formatted_address ELSE <<>>

ExpectedFormatted(t, id) ==
  IF Len(StoredFormatted(t, id)) > 0 THEN StoredFormatted(t, id)
  ELSE Join(NonEmpty(<<db[t][id].street, db[t][id].city, db[t][id].state,
                       db[t][id].postcode, db[t][id].country>>))

\* the record whose address the last response carries, if it carries one
AddressOf ==
  IF reply = NoResponse \/ reply.status # 200 THEN {}
  ELSE IF reply.call.endpoint = "bridge"
  THEN {<<syncPLI_table(reply.body.place_id), reply.body.place_id,
          reply.body.address>>}
  ELSE IF reply.call.endpoint = "find-nearby"
          /\ reply.body.nearby_place # NoNearby
  THEN {<<syncPLI_table(reply.body.nearby_place.place_id),
          reply.body.nearby_place.place_id, reply.body.nearby_place.address>>}
  ELSE IF reply.call.endpoint = "resolve"
          /\ reply.body.resolution.method # "created_custom"
  THEN {<<reply.body.place.source, reply.body.place.id,
          reply.body.place.address>>}
  ELSE {}

C21_AddressFormatting ==
  \A a \in AddressOf : a[3].formatted = ExpectedFormatted(a[1], a[2])

\* C22: no resolve, sync-pli, bridge or find-nearby call deletes a record or
\* changes a record's name, coordinates, category or address; the only
\* change to an existing record sets a platform identifier that was null;
\* a record is inserted only by a resolve call that found no match.
C22_LifecycleFrame ==
  [][/\ \A e \in AllRows(db) :
          /\ e \in AllRows(db')
          /\ \A f \in DOMAIN db[e[1]][e[2]] :
               db'[e[1]][e[2]][f] # db[e[1]][e[2]][f] =>
                 (f \in Columns /\ db[e[1]][e[2]][f] = NULL)
     /\ AllRows(db') # AllRows(db) =>
          /\ Cardinality(AllRows(db') \ AllRows(db)) = 1
          /\ reply'.call.endpoint = "resolve"
          /\ reply'.body.resolution.method = "created_custom"
          /\ conflate_place(db, reply'.call.request) = {NoMatch}]_vars

\* a record was inserted and an identifier was linked to an existing record
C22_Witness ==
  /\ DOMAIN db["custom_places"] # {}
  /\ db["places"][<<"gers_", 1>>].apple_place_id # NULL

\* C23: every uncached search eventually returns a result or
\* AllProvidersFailed, provided each provider call answers, errors or
\* reaches its timeout; a provider that timed out is excluded from the
\* result; each enabled provider is called at most once per search.
C23_BoundedWait ==
  /\ (searchPc = "fanout") ~>
       (searchPc = "done" /\ searchResponse.status \in {200, 500})
  /\ [][\A pr \in Providers :
          (task[pr] # "pending" /\ task'[pr] = "pending") =>
            (searchPc = "idle" /\ task[pr] = "idle" /\ pr \in enabled)]_vars
  /\ [][(Joins /\ searchResponse'.status = 200) =>
          \A pr \in enabled :
            task[pr] \in {"timeout", "error"} =>
              /\ pr \notin searchResponse'.body.metadata.sources
              /\ \A i \in 1..Len(searchResponse'.body.results) :
                   pr \notin searchResponse'.body.results[i].sources]_vars

\* google reached its timeout and the search answered from the others
C23_Witness ==
  /\ searchPc = "done"
  /\ task["google"] = "timeout"
  /\ searchResponse.status = 200
  /\ Len(searchResponse.body.results) > 0

\* a response carries a boolean success that is false outside 2xx
HasEnvelope(r) ==
  /\ "success" \in DOMAIN r.body
  /\ r.body.success \in BOOLEAN
  /\ r.status \notin 200..299 => r.body.success = FALSE

OutOfBounds(b) ==
  \/ b.lat \notin -90..90
  \/ b.lon \notin -180..180
  \/ "radius" \in b.has /\ b.radius \notin 1..50000
  \/ "limit" \in b.has /\ b.limit \notin 1..100
  \/ "offset" \in b.has /\ b.offset < 0

\* C24: every response of POST /search, the 400 of validateBody
\* included, carries a boolean success field that is false on a non-2xx
\* status; a body outside the bounds is refused, and a refused request
\* reaches no provider.
C24_ResponseEnvelope ==
  /\ searchResponse # NoResponse => HasEnvelope(searchResponse)
  /\ \A b \in SearchBodies : OutOfBounds(b) => ~ searchQuerySchema(b)
  /\ (searchResponse # NoResponse /\ searchResponse.status = 400) =>
       \A pr \in Providers : task[pr] = "idle"
EventTypes == [i \in 1..Len(stream.events) |-> stream.events[i].type]
Emitted(type) == \E i \in 1..Len(stream.events) : stream.events[i].type = type

\* C25: the 'google' event comes before any other event; a stream that
\* ended without an exception is 'google', 'poi_match', 'enrichments' only
\* if the match reported matched, then 'complete'; a stream that ended on an
\* exception has one 'error' event as its last event and no 'complete'.
C25_StreamEventOrder ==
  /\ stream.events # <<>> => stream.events[1].type = "google"
  /\ stream.pc = "closed" =>
       IF Emitted("error")
       THEN /\ stream.events[Len(stream.events)].type = "error"
            /\ ~ Emitted("complete")
            /\ \A i \in 1..(Len(stream.events) - 1) :
                 stream.events[i].type # "error"
       ELSE \/ /\ EventTypes = <<"google", "poi_match", "complete">>
               /\ ~ stream.events[2].data.matched
            \/ /\ EventTypes =
                    <<"google", "poi_match", "enrichments", "complete">>
               /\ stream.events[2].data.matched

\* the same without the first clause: a 'google' event, if there is one,
\* is the first event, and only an 'error' event may come without it
C25_OrderAfterLookup ==
  /\ \A i \in 1..Len(stream.events) :
       stream.events[i].type = "google" => i = 1
  /\ (stream.events # <<>> /\ stream.events[1].type # "google") =>
       (Len(stream.events) = 1 /\ stream.events[1].type = "error")
  /\ stream.pc = "closed" =>
       IF Emitted("error")
       THEN /\ stream.events[Len(stream.events)].type = "error"
            /\ ~ Emitted("complete")
            /\ \A i \in 1..(Len(stream.events) - 1) :
                 stream.events[i].type # "error"
       ELSE \/ /\ EventTypes = <<"google", "poi_match", "complete">>
               /\ ~ stream.events[2].data.matched
            \/ /\ EventTypes =
                    <<"google", "poi_match", "enrichments", "complete">>
               /\ stream.events[2].data.matched
\* the key of the request holds a readable entry when the handler starts
AutocompleteHit(k) ==
  redisUp /\ auto.cache[k] \notin {NoEntry, InvalidJSON}

\* C26: on a hit the handler answers the cached suggestions with cached
\* true and orchestrator.autocomplete is not called; on a miss it is called
\* once, the suggestions are written to the cache and answered with cached
\* false; when the fetch fails the answer is 500 and the cache is as before.
C26_AutocompleteCacheAside ==
  [][(places_autocomplete /\ auto'.reply.status # 400) =>
       LET r == auto'.reply
           k == <<r.call.input, r.call.location>>
       IN
         IF AutocompleteHit(k)
         THEN /\ r.status = 200
              /\ r.body.metadata.cached = TRUE
              /\ stringify(r.body.suggestions) = auto.cache[k]
              /\ auto'.fetches = 0 /\ r.fetched = NotFetched
              /\ auto'.cache = auto.cache
         ELSE /\ auto'.fetches = 1 /\ r.fetched # NotFetched
              /\ IF r.fetched = FetchThrown
                 THEN r.status = 500 /\ auto'.cache = auto.cache
                 ELSE /\ r.status = 200
                      /\ r.body.metadata.cached = FALSE
                      /\ r.body.suggestions = r.fetched
                      /\ redisUp => auto'.cache[k] = stringify(r.fetched)
                      /\ \A other \in AutocompleteKeys \ {k} :
                           auto'.cache[other] = auto.cache[other]]_vars

\* a request was answered from the cache after an earlier one filled it
C26_Witness ==
  /\ auto.reply # NoResponse
  /\ auto.reply.status = 200
  /\ auto.reply.body.metadata.cached
  /\ auto.reply.body.suggestions = <<"s1", "s2">>
\* C27: when a resolve that matched an existing record returns, the
\* google_place_id and apple_place_id of the returned place are the values
\* stored on that record at that moment.
C27_ReturnedIdsStored ==
  [][\A p \in Procs :
       (Links(p) /\ response'[p].status = 200) =>
         \A col \in Columns :
           response'[p].body.place[col] =
             Field(db', <<response'[p].body.place.source,
                         response'[p].body.place.id>>, col)]_vars
\* C28: a resolve answers method exact_pli only when an identifier of its
\* request equals the identifier the matched record held when the match
\* source was asked; a candidate of the spatial+name step is answered as
\* spatial_match whatever its match confidence.
C28_MethodLabelSound ==
  [][\A p \in Procs :
       (Links(p) /\ response'[p].status = 200
          /\ response'[p].body.resolution.method = "exact_pli") =>
         \E col \in Columns :
           /\ request[p][col] \notin {NULL, ""}
           /\ match[p][col] = request[p][col]]_vars
ResolveAnswered ==
  reply # NoResponse /\ reply.call.endpoint = "resolve" /\ reply.status = 200

\* C29: an id that resolve returns with source custom_places starts with
\* 'custom_' and one returned with source places does not, and the table
\* that syncPLI and getBridge pick from the prefix of an id is the table
\* that holds the record.
C29_IdPrefixMatchesTable ==
  /\ \A t \in Tables : \A id \in DOMAIN db[t] :
       (id[1] = "custom_") <=> (t = "custom_places")
  /\ ResolveAnswered =>
       LET place == reply.body.place IN
         /\ (place.id[1] = "custom_") <=> (place.source = "custom_places")
         /\ place.id \in DOMAIN db[place.source]
         /\ syncPLI_table(place.id) = place.source

\* resolve returned a custom record that an earlier resolve had created
C29_Witness ==
  /\ ResolveAnswered
  /\ reply.body.place.source = "custom_places"
  /\ reply.body.resolution.method # "created_custom"
\* the two objects give every parameter the same value
SameValues(a, b) == a.val = b.val

\* C30: parameter sets that differ in the value of a parameter get
\* different cache keys, so what getSearchResults finds under the key of a
\* parameter set was stored for a set with the same values.
C30_KeyInjective ==
  /\ (cacheKeys # <<>> /\ ~ SameValues(cacheParams[1], cacheParams[2]))
       => cacheKeys[1] # cacheKeys[2]
  /\ searchCache # NoEntry =>
       SameValues(searchCache.storedFor, cacheParams[2])

\* a hit for an object whose keys were inserted in another order
C30_Witness ==
  /\ searchCache # NoEntry
  /\ cacheParams[1].keys # cacheParams[2].keys
  /\ cacheParams[1].val.query = <<"a", "\"", ",">>
====
